---- MODULE Spec2Model ----
(***************************************************************************)
(* Model of TypeTraits.h (FunctionTraits): the classification of callable  *)
(* types and the write traits that rebuild modified function types.        *)
(*                                                                         *)
(* A C++ type is a record:                                                 *)
(*   kind   "fn" (function type), "pmf" (pointer to non-static member      *)
(*          function), "class" (class type), "scalar" (int)                *)
(*   sig    the function signature (for "fn" and "pmf"; for "class" the    *)
(*          signature of its operator())                                   *)
(*   class  owning class of a "pmf", name of a "class", else "void"        *)
(*   nops   number of operator() overloads of a "class"                    *)
(*   templ  TRUE when operator() of a "class" is a member template         *)
(*   cv     top-level cv-qualification of the core (never set for "fn")    *)
(*   ptrs   the pointer layers, innermost first, each with its own cv      *)
(*   ref    "none", "lvalue" or "rvalue": the outer reference              *)
(* The calling convention stored in a signature is the one the compiler    *)
(* gives the function (the effective one), see Keyword.                    *)
(***************************************************************************)
EXTENDS Integers, Sequences, FiniteSets, TLC

VARIABLES
    cfg,     \* the build configuration: which keywords the compiler replaces with cdecl
    F,       \* the type under analysis (the template argument F)
    traits,  \* FunctionTraits<F>: the specialization selected for F
    op,      \* the kind of the last operation: "Declare", a wrapping, "Write" or "static_assert"
    req,     \* the declaration F was compiled from, NoReq once F was wrapped or rebuilt
    edits,   \* the number of write traits applied so far
    call,    \* the call of ForEach, ForEachTupleType or ForEachArg being translated and run
    impl,    \* ForEachImpl<N, ForEachFunctorT>: the count N and the functor m_Functor
    I,       \* the index of the specialization Process<I> being stamped out or run
    stamped, \* the indices I whose "operator()" specialization the compiler stamped out
    invoked, \* the indices the functor was invoked with at run time, in order
    returned,\* the value ForEach returned: "true", "false", or "none" before it returns
    elements,\* the types TupleElement_t the functor was invoked with at run time, in order
    compiler,\* the compiler and the format of its __PRETTY_FUNCTION__ or __FUNCSIG__
    probe,   \* the name of the type T of the last TypeName_v<T>
    TypeName_v, \* the string TypeName_v<T> yielded
    replaced \* the last call of CallingConventionReplacedWithCdecl and what came of it

iteration == <<call, impl, I, stamped, invoked, returned, elements>>

naming == <<compiler, probe, TypeName_v>>

vars == <<cfg, F, traits, op, req, edits, iteration, naming, replaced>>

NoCall == [fn |-> "none"]

NoImpl == [N |-> 0]

NoCompiler == [id |-> "none"]

NoName == <<"none">>

NotCalled == [CallingConventionT |-> "none"]

(* No iteration is under way *)
NotIterating ==
    /\ call = NoCall /\ impl = NoImpl /\ I = 0
    /\ stamped = {} /\ invoked = <<>> /\ returned = "none" /\ elements = <<>>

(* No type name is asked for *)
NotNaming == compiler = NoCompiler /\ probe = <<>> /\ TypeName_v = NoName

(* CallingConventionReplacedWithCdecl is not called by the user *)
NotProbing == replaced = NotCalled

-----------------------------------------------------------------------------
(* Bounds of the model *)

MaxArgs == 2

MaxPtr == 2

MaxEdits == 1

RetTypes == {"int", "void"}

ArgTypes == {"int", "double"}

Classes == {"K", "L"}

RECURSIVE SeqsUpTo(_, _)
SeqsUpTo(S, n) ==
    IF n = 0 THEN {<<>>}
    ELSE LET shorter == SeqsUpTo(S, n - 1)
         IN  shorter \cup {Append(s, x) : s \in {t \in shorter : Len(t) = n - 1}, x \in S}

ArgLists == SeqsUpTo({"int"}, MaxArgs)

-----------------------------------------------------------------------------
(* enum class CallingConvention and enum class RefQualifier *)

CallingConventionOrder == <<"Cdecl", "Stdcall", "Fastcall", "Vectorcall", "Thiscall", "Regcall">>

CallingConvention(c) ==
    {CallingConventionOrder[i] : i \in 1..(IF c.regcall THEN 6 ELSE 5)}

CCIndex(cc) == CHOOSE i \in 1..6 : CallingConventionOrder[i] = cc

RefQualifier == {"None", "LValue", "RValue"}

NoCv == [c |-> FALSE, v |-> FALSE]

CvSet == [c : BOOLEAN, v : BOOLEAN]

-----------------------------------------------------------------------------
(* What the compiler does with a calling-convention keyword: the build     *)
(* configuration c lists, for free and for non-static member functions,    *)
(* the keywords it replaces with cdecl.                                    *)

Keyword(c, cc, isFree) ==
    IF cc \in (IF isFree THEN c.free ELSE c.member) THEN "Cdecl" ELSE cc

(* A function type as the compiler forms it from "R CC (Args[, ...]) cv ref noexcept(N)" *)
MkSig(ret, args, variadic, cc, noex, const, vol, refq) ==
    [ret |-> ret, args |-> args, variadic |-> variadic, cc |-> cc, noex |-> noex,
     const |-> const, vol |-> vol, refq |-> refq]

NoSig == MkSig("void", <<>>, FALSE, "Cdecl", FALSE, FALSE, FALSE, "None")

MkFn(c, ret, cc, args, variadic, noex) ==
    [kind |-> "fn", sig |-> MkSig(ret, args, variadic, Keyword(c, cc, TRUE), noex, FALSE, FALSE, "None"),
     class |-> "void", nops |-> 0, templ |-> FALSE, cv |-> NoCv, ptrs |-> <<>>, ref |-> "none"]

MkPmf(c, ret, cc, class, args, variadic, const, vol, refq, noex) ==
    [kind |-> "pmf", sig |-> MkSig(ret, args, variadic, Keyword(c, cc, FALSE), noex, const, vol, refq),
     class |-> class, nops |-> 0, templ |-> FALSE, cv |-> NoCv, ptrs |-> <<>>, ref |-> "none"]

-----------------------------------------------------------------------------
(* The standard type traits the header uses *)

IsAbominable(T) ==
    /\ T.kind = "fn" /\ T.ptrs = <<>> /\ T.ref = "none"
    /\ (T.sig.const \/ T.sig.vol \/ T.sig.refq # "None")

is_reference(T) == T.ref # "none"

is_lvalue_reference(T) == T.ref = "lvalue"

is_rvalue_reference(T) == T.ref = "rvalue"

remove_reference(T) == [T EXCEPT !.ref = "none"]

is_pointer(T) == T.ref = "none" /\ T.ptrs # <<>>

remove_pointer(T) ==
    IF is_pointer(T) THEN [T EXCEPT !.ptrs = SubSeq(T.ptrs, 1, Len(T.ptrs) - 1)] ELSE T

is_function(T) == T.kind = "fn" /\ T.ptrs = <<>> /\ T.ref = "none"

is_member_function_pointer(T) == T.kind = "pmf" /\ T.ptrs = <<>> /\ T.ref = "none"

(* Functions and references have no top-level cv-qualification *)
HasTopCv(T) == T.ref = "none" /\ ~(T.kind = "fn" /\ T.ptrs = <<>>)

TopCv(T) ==
    IF ~HasTopCv(T) THEN NoCv
    ELSE IF T.ptrs # <<>> THEN T.ptrs[Len(T.ptrs)] ELSE T.cv

SetTopCv(T, q) ==
    IF ~HasTopCv(T) THEN T
    ELSE IF T.ptrs # <<>> THEN [T EXCEPT !.ptrs[Len(T.ptrs)] = q] ELSE [T EXCEPT !.cv = q]

is_const(T) == TopCv(T).c

is_volatile(T) == TopCv(T).v

add_const(T) == SetTopCv(T, [TopCv(T) EXCEPT !.c = TRUE])

add_volatile(T) == SetTopCv(T, [TopCv(T) EXCEPT !.v = TRUE])

remove_cv(T) == SetTopCv(T, NoCv)

(* "T *" is ill-formed for a reference and for an abominable function type *)
CanPoint(T) == T.ref = "none" /\ ~IsAbominable(T)

PointerTo(T) == [T EXCEPT !.ptrs = Append(T.ptrs, NoCv)]

add_pointer(T) ==
    IF IsAbominable(T) THEN T ELSE PointerTo(remove_reference(T))

add_lvalue_reference(T) ==
    IF IsAbominable(T) THEN T ELSE [T EXCEPT !.ref = "lvalue"]

add_rvalue_reference(T) ==
    IF IsAbominable(T) THEN T
    ELSE IF T.ref = "none" THEN [T EXCEPT !.ref = "rvalue"] ELSE T

-----------------------------------------------------------------------------
(* RemoveRefAndPtr, RemoveRefAndPtrAndCv and the category predicates *)

RemoveRefAndPtr(T) == remove_pointer(remove_reference(T))

RemoveRefAndPtrKeepingCv(T) == RemoveRefAndPtr(T)

RemoveRefAndPtrAndCv(T) == remove_cv(RemoveRefAndPtr(T))

IsFreeFunctionWithoutPointerProbe(T) == is_function(T)

(* Private::IsFreeFunction: std::is_function_v<std::remove_pointer_t<T *>> under SFINAE *)
IsFreeFunction(T) == CanPoint(T) /\ is_function(remove_pointer(PointerTo(T)))

IsFunctorAnyCallOperator(T) ==
    LET U == remove_reference(T)
    IN  U.kind = "class" /\ U.ptrs = <<>> /\ U.nops >= 1

(* Private::IsFunctor: decltype(&std::remove_reference_t<T>::operator()) is well-formed *)
IsFunctor(T) ==
    LET U == remove_reference(T)
    IN  U.kind = "class" /\ U.ptrs = <<>> /\ U.nops = 1 /\ ~U.templ

IsTraitsFunction(T) ==
    \/ IsFreeFunction(RemoveRefAndPtr(T))
    \/ is_member_function_pointer(remove_reference(T))
    \/ IsFunctor(T)

-----------------------------------------------------------------------------
(* CallingConventionReplacedWithCdecl<CallingConventionT, IsFreeFuncT>():  *)
(* TRUE or FALSE, or "NoReturn" when control reaches the end of the        *)
(* function without a return statement.                                    *)

FreeProbe(c, cc) == MkFn(c, "void", cc, <<>>, FALSE, FALSE)

MemberProbe(c, cc) == MkPmf(c, "void", cc, "AnyClass", <<>>, FALSE, FALSE, FALSE, "None", FALSE)

CallingConventionReplacedWithCdecl(c, cc, isFreeFunc) ==
    IF isFreeFunc
    THEN IF cc = "Cdecl" THEN FALSE
         ELSE IF cc \in {"Stdcall", "Fastcall", "Vectorcall"}
              THEN FreeProbe(c, cc) = FreeProbe(c, "Cdecl")
         ELSE IF c.regcall THEN FreeProbe(c, "Regcall") = FreeProbe(c, "Cdecl")
         ELSE "NoReturn"
    ELSE IF cc = "Cdecl" THEN FALSE
         ELSE IF cc \in {"Stdcall", "Fastcall", "Vectorcall", "Thiscall"}
              THEN MemberProbe(c, cc) = MemberProbe(c, "Cdecl")
         ELSE IF c.regcall THEN MemberProbe(c, "Regcall") = MemberProbe(c, "Cdecl")
         ELSE "NoReturn"

-----------------------------------------------------------------------------
(* class FunctionTraitsHelper *)

MigrateConstAlways(F1, F2) == add_const(F2)

MigrateConst(F1, F2) == IF is_const(remove_reference(F1)) THEN add_const(F2) ELSE F2

MigrateVolatile(F1, F2) == IF is_volatile(remove_reference(F1)) THEN add_volatile(F2) ELSE F2

MigrateCv(F1, F2) == MigrateVolatile(F1, MigrateConst(F1, F2))

MigrateRef(F1, F2) ==
    IF is_lvalue_reference(F1) THEN add_lvalue_reference(F2)
    ELSE IF is_rvalue_reference(F1) THEN add_rvalue_reference(F2)
    ELSE F2

MigrateRefDroppingPointer(F1, F2) == MigrateRef(F1, F2)

MigratePointerAndRef(F1, F2) ==
    MigrateRef(F1, IF is_pointer(remove_reference(F1)) THEN MigrateCv(F1, add_pointer(F2)) ELSE F2)

MigrateCvOnly(F1, F2) == MigrateCv(F1, F2)

MigrateCvAndRef(F1, F2) == MigrateRef(F1, MigrateCv(F1, F2))

(* What an alias names when a static_assert fires while it is formed: no type *)
Invalid ==
    [kind |-> "invalid", sig |-> NoSig, class |-> "void", nops |-> 0, templ |-> FALSE,
     cv |-> NoCv, ptrs |-> <<>>, ref |-> "none"]

InvalidTuple == <<"static_assert">>

ReplaceNthTypeOrAppend(N, NewT, Ts) ==
    IF ~(N < Len(Ts)) THEN Append(Ts, NewT)
    ELSE [Ints \in 1..Len(Ts) |-> IF Ints - 1 = N THEN NewT ELSE Ts[Ints]]

(* ReplaceNthType<N, NewT, Ts...>: N is zero-based, the result a tuple *)
ReplaceNthType(N, NewT, Ts) ==
    IF ~(N < Len(Ts)) THEN InvalidTuple
    ELSE [Ints \in 1..Len(Ts) |-> IF Ints - 1 = N THEN NewT ELSE Ts[Ints]]

(* ReplaceArgsTupleImpl<ReplaceArgsT, std::tuple<NewArgsT...>>::Type, given *)
(* ReplaceArgsT<NewArgsT...>                                               *)
ReplaceArgsTupleImpl(ReplaceArgsT, NewArgsTupleT) ==
    IF NewArgsTupleT = InvalidTuple THEN Invalid ELSE ReplaceArgsT

-----------------------------------------------------------------------------
(* struct FunctionTraitsBase: the classification record.  CC is the        *)
(* calling-convention keyword the specialization was generated with (the   *)
(* macro argument CC), CallingConvention the enumerator it reports.        *)

STDEXT_CC_VARIADIC == "Cdecl"

FunctionTraitsBaseVoidIsMember(Fty, R, CC, CallingConventionT, IsVariadicT, ClassT, IsConstT, IsVolatileT, RefQualifierT, IsNoexceptT, ArgsT) ==
    LET IsMemberFunction == (ClassT = "void")
    IN  [sel |-> "base", Type |-> Fty, ReturnType |-> R, CC |-> CC,
         CallingConvention |-> CallingConventionT, IsVariadic |-> IsVariadicT,
         Class |-> ClassT, IsConst |-> IsConstT, IsVolatile |-> IsVolatileT,
         RefQualifier |-> RefQualifierT, IsNoexcept |-> IsNoexceptT,
         ArgTypes |-> ArgsT, ArgCount |-> Len(ArgsT),
         IsMemberFunction |-> IsMemberFunction,
         IsFreeFunction |-> ~IsMemberFunction,
         IsFunctor |-> FALSE]

FunctionTraitsBase(Fty, R, CC, CallingConventionT, IsVariadicT, ClassT, IsConstT, IsVolatileT, RefQualifierT, IsNoexceptT, ArgsT) ==
    LET IsMemberFunction == ~(ClassT = "void")
    IN  [sel |-> "base", Type |-> Fty, ReturnType |-> R, CC |-> CC,
         CallingConvention |-> CallingConventionT, IsVariadic |-> IsVariadicT,
         Class |-> ClassT, IsConst |-> IsConstT, IsVolatile |-> IsVolatileT,
         RefQualifier |-> RefQualifierT, IsNoexcept |-> IsNoexceptT,
         ArgTypes |-> ArgsT, ArgCount |-> Len(ArgsT),
         IsMemberFunction |-> IsMemberFunction,
         IsFreeFunction |-> ~IsMemberFunction,
         IsFunctor |-> FALSE]

(* No specialization: the primary template (a static_assert, or no members) *)
Primary == [sel |-> "primary"]

Incomplete == [sel |-> "incomplete"]

Ambiguous == [sel |-> "ambiguous"]

Classified(t) == t.sel \in {"free", "member", "functor"}

-----------------------------------------------------------------------------
(* FreeFunctionTraits: the partial specializations MAKE_FREE_FUNC_TRAITS_2 *)
(* generates, one per (CC, CALLING_CONVENTION, ARGS, IS_NOEXCEPT).         *)

FreeSpecializations(c) ==
    [CC : {"Cdecl", "Stdcall", "Fastcall", "Vectorcall"} \cup (IF c.regcall THEN {"Regcall"} ELSE {}),
     variadic : {FALSE}]
    \cup [CC : {STDEXT_CC_VARIADIC}, variadic : {TRUE}]

(* The enumerator passed next to the keyword *)
FreeSpecConvention(s) == IF s.variadic THEN "Cdecl" ELSE s.CC

FreeSpecAlwaysEnabled(c, s) == TRUE

FreeSpecEnabled(c, s) ==
    CallingConventionReplacedWithCdecl(c, FreeSpecConvention(s), TRUE) = FALSE

(* S has the form R CC ARGS noexcept(IS_NOEXCEPT) *)
FreeSpecMatches(c, s, S) ==
    /\ is_function(S) /\ ~IsAbominable(S)
    /\ S.sig.cc = Keyword(c, s.CC, TRUE)
    /\ S.sig.variadic = s.variadic
    /\ S.sig.noex \in BOOLEAN

FreeFunctionTraits(c, Fty, S) ==
    LET m == {s \in FreeSpecializations(c) : FreeSpecEnabled(c, s) /\ FreeSpecMatches(c, s, S)}
    IN  IF m = {} THEN Incomplete
        ELSE IF Cardinality(m) > 1 THEN Ambiguous
        ELSE LET s == CHOOSE x \in m : TRUE
             IN  [FunctionTraitsBase(Fty, S.sig.ret, s.CC, FreeSpecConvention(s), s.variadic,
                                     "void", FALSE, FALSE, "None", S.sig.noex, S.sig.args)
                  EXCEPT !.sel = "free"]

-----------------------------------------------------------------------------
(* MemberFunctionTraits: the partial specializations                       *)
(* MAKE_MEMBER_FUNC_TRAITS_5 generates.                                    *)

MemberSpecializations(c) ==
    [CC : {"Cdecl", "Thiscall", "Stdcall", "Fastcall", "Vectorcall"} \cup (IF c.regcall THEN {"Regcall"} ELSE {}),
     variadic : {FALSE}]
    \cup [CC : {STDEXT_CC_VARIADIC}, variadic : {TRUE}]

(* CONST, VOLATILE, REF and IS_NOEXCEPT: a specialization exists for each combination *)
MemberSpecQualifiers == [const : BOOLEAN, vol : BOOLEAN, refq : RefQualifier, noex : BOOLEAN]

MemberSpecConventionMispaired(s) ==
    IF s.variadic THEN "Cdecl"
    ELSE IF s.CC = "Vectorcall" THEN "Fastcall"
    ELSE IF s.CC = "Fastcall" THEN "Vectorcall"
    ELSE s.CC

MemberSpecConvention(s) == IF s.variadic THEN "Cdecl" ELSE s.CC

MemberSpecAlwaysEnabled(c, s) == TRUE

MemberSpecEnabled(c, s) ==
    CallingConventionReplacedWithCdecl(c, MemberSpecConvention(s), FALSE) = FALSE

(* S is a pointer to member of C of type R CC ARGS CONST VOLATILE REF noexcept(IS_NOEXCEPT) *)
MemberSpecMatches(c, s, S) ==
    /\ is_member_function_pointer(S) /\ S.cv = NoCv
    /\ S.sig.cc = Keyword(c, s.CC, FALSE)
    /\ S.sig.variadic = s.variadic
    /\ [const |-> S.sig.const, vol |-> S.sig.vol, refq |-> S.sig.refq, noex |-> S.sig.noex]
           \in MemberSpecQualifiers

MemberFunctionTraits(c, Fty, S) ==
    LET m == {s \in MemberSpecializations(c) : MemberSpecEnabled(c, s) /\ MemberSpecMatches(c, s, S)}
    IN  IF m = {} THEN Incomplete
        ELSE IF Cardinality(m) > 1 THEN Ambiguous
        ELSE LET s == CHOOSE x \in m : TRUE
             IN  [FunctionTraitsBase(Fty, S.sig.ret, s.CC, MemberSpecConvention(s), s.variadic,
                                     S.class, S.sig.const, S.sig.vol, S.sig.refq, S.sig.noex, S.sig.args)
                  EXCEPT !.sel = "member"]

-----------------------------------------------------------------------------
(* FunctorTraits<F>: MemberFunctionTraits of decltype(&F::operator()) *)

OperatorType(S) ==
    [kind |-> "pmf", sig |-> S.sig, class |-> S.class, nops |-> 0, templ |-> FALSE,
     cv |-> NoCv, ptrs |-> <<>>, ref |-> "none"]

FunctorTraitsWithoutOverride(c, S) ==
    IF is_reference(S) \/ ~IsFunctor(S) THEN Primary
    ELSE MemberFunctionTraits(c, OperatorType(S), OperatorType(S))

FunctorTraits(c, S) ==
    IF is_reference(S) \/ ~IsFunctor(S) THEN Primary
    ELSE LET b == MemberFunctionTraits(c, OperatorType(S), OperatorType(S))
         IN  IF b.sel = "member" THEN [b EXCEPT !.sel = "functor", !.IsFunctor = TRUE] ELSE b

-----------------------------------------------------------------------------
(* FunctionTraits<F>: the primary template and its three partial           *)
(* specializations, selected on RemoveRefAndPtrAndCv<F>.                   *)

FunctionTraitsEnabled(Fty) ==
    LET S == RemoveRefAndPtrAndCv(Fty)
    IN  (IF IsFreeFunction(S) THEN {"free"} ELSE {})
        \cup (IF is_member_function_pointer(S) THEN {"member"} ELSE {})
        \cup (IF IsFunctor(Fty) THEN {"functor"} ELSE {})

FunctionTraits(c, Fty) ==
    LET S == RemoveRefAndPtrAndCv(Fty)
        e == FunctionTraitsEnabled(Fty)
    IN  IF e = {} THEN Primary
        ELSE IF Cardinality(e) > 1 THEN Ambiguous
        ELSE IF "free" \in e THEN FreeFunctionTraits(c, Fty, S)
        ELSE IF "member" \in e THEN MemberFunctionTraits(c, Fty, S)
        ELSE FunctorTraits(c, S)

-----------------------------------------------------------------------------
(* The write traits of a FreeFunctionTraits specialization t.  FreeFn      *)
(* forms "R CC ARGS noexcept(N)" and migrates the pointer and reference    *)
(* of t.Type onto it (MigratePointerAndRef_t).                             *)

FreeFn(c, t, ret, cc, args, variadic, noex) ==
    MigratePointerAndRef(t.Type, MkFn(c, ret, cc, args, variadic, noex))

FreeAddVariadicArgsKeepingConvention(c, t) ==
    FreeFn(c, t, t.ReturnType, t.CC, t.ArgTypes, TRUE, t.IsNoexcept)

FreeAddVariadicArgs(c, t) ==
    FreeFn(c, t, t.ReturnType, STDEXT_CC_VARIADIC, t.ArgTypes, TRUE, t.IsNoexcept)

FreeRemoveVariadicArgs(c, t) ==
    FreeFn(c, t, t.ReturnType, t.CC, t.ArgTypes, FALSE, t.IsNoexcept)

FreeAddConstOnType(c, t) == add_const(t.Type)

FreeAddConst(c, t) == t.Type

FreeRemoveConst(c, t) == t.Type

FreeAddVolatile(c, t) == t.Type

FreeRemoveVolatile(c, t) == t.Type

FreeAddCV(c, t) == t.Type

FreeRemoveCV(c, t) == t.Type

FreeAddLValueReference(c, t) == t.Type

FreeAddRValueReference(c, t) == t.Type

FreeRemoveReference(c, t) == t.Type

FreeAddNoexcept(c, t) ==
    FreeFn(c, t, t.ReturnType, t.CC, t.ArgTypes, t.IsVariadic, TRUE)

FreeRemoveNoexcept(c, t) ==
    FreeFn(c, t, t.ReturnType, t.CC, t.ArgTypes, t.IsVariadic, FALSE)

FreeReplaceCallingConventionTupleWithThiscall(c, t) ==
    LET Fn(cc) == MkFn(c, t.ReturnType, cc, t.ArgTypes, t.IsVariadic, t.IsNoexcept)
    IN  <<Fn("Cdecl"), Fn("Stdcall"), Fn("Fastcall"), Fn("Vectorcall"), Fn("Thiscall")>>
        \o (IF c.regcall THEN <<Fn("Regcall")>> ELSE <<>>)

(* REPLACE_CALLING_CONVENTION_TUPLE: indexed by the enumerator's value *)
FreeReplaceCallingConventionTuple(c, t) ==
    LET Fn(cc) == MkFn(c, t.ReturnType, cc, t.ArgTypes, t.IsVariadic, t.IsNoexcept)
    IN  <<Fn("Cdecl"), Fn("Stdcall"), Fn("Fastcall"), Fn("Vectorcall"), Fn(t.CC)>>
        \o (IF c.regcall THEN <<Fn("Regcall")>> ELSE <<>>)

FreeReplaceCallingConventionIgnoringEllipsis(c, t, NewCallingConventionT) ==
    MigratePointerAndRef(t.Type, FreeReplaceCallingConventionTuple(c, t)[CCIndex(NewCallingConventionT)])

FreeReplaceCallingConvention(c, t, NewCallingConventionT) ==
    MigratePointerAndRef(t.Type,
        IF t.IsVariadic
        THEN MkFn(c, t.ReturnType, STDEXT_CC_VARIADIC, t.ArgTypes, t.IsVariadic, t.IsNoexcept)
        ELSE FreeReplaceCallingConventionTuple(c, t)[CCIndex(NewCallingConventionT)])

FreeReplaceClass(c, t, NewClassT) == t.Type

FreeReplaceReturnType(c, t, NewReturnTypeT) ==
    FreeFn(c, t, NewReturnTypeT, t.CC, t.ArgTypes, t.IsVariadic, t.IsNoexcept)

FreeReplaceArgsDroppingEllipsis(c, t, NewArgsT) ==
    FreeFn(c, t, t.ReturnType, t.CC, NewArgsT, FALSE, t.IsNoexcept)

FreeReplaceArgs(c, t, NewArgsT) ==
    IF t.IsVariadic
    THEN FreeFn(c, t, t.ReturnType, STDEXT_CC_VARIADIC, NewArgsT, TRUE, t.IsNoexcept)
    ELSE FreeFn(c, t, t.ReturnType, t.CC, NewArgsT, FALSE, t.IsNoexcept)

FreeReplaceArgsTuple(c, t, NewArgsTupleT) ==
    ReplaceArgsTupleImpl(FreeReplaceArgs(c, t, NewArgsTupleT), NewArgsTupleT)

FreeReplaceNthArg(c, t, N, NewArgT) ==
    FreeReplaceArgsTuple(c, t, ReplaceNthType(N, NewArgT, t.ArgTypes))

-----------------------------------------------------------------------------
(* The write traits of a MemberFunctionTraits specialization t.  MemberFn  *)
(* forms the pointer to member and migrates the cv-qualifiers and the      *)
(* reference of t.Type onto it (MigrateCvAndRef_t).                        *)

MemberFn(c, t, ret, cc, class, args, variadic, const, vol, refq, noex) ==
    MigrateCvAndRef(t.Type, MkPmf(c, ret, cc, class, args, variadic, const, vol, refq, noex))

MemberAddVariadicArgs(c, t) ==
    MemberFn(c, t, t.ReturnType, STDEXT_CC_VARIADIC, t.Class, t.ArgTypes, TRUE,
             t.IsConst, t.IsVolatile, t.RefQualifier, t.IsNoexcept)

MemberRemoveVariadicArgs(c, t) ==
    MemberFn(c, t, t.ReturnType, t.CC, t.Class, t.ArgTypes, FALSE,
             t.IsConst, t.IsVolatile, t.RefQualifier, t.IsNoexcept)

MemberAddConst(c, t) ==
    MemberFn(c, t, t.ReturnType, t.CC, t.Class, t.ArgTypes, t.IsVariadic,
             TRUE, t.IsVolatile, t.RefQualifier, t.IsNoexcept)

MemberRemoveConst(c, t) ==
    MemberFn(c, t, t.ReturnType, t.CC, t.Class, t.ArgTypes, t.IsVariadic,
             FALSE, t.IsVolatile, t.RefQualifier, t.IsNoexcept)

MemberAddVolatile(c, t) ==
    MemberFn(c, t, t.ReturnType, t.CC, t.Class, t.ArgTypes, t.IsVariadic,
             t.IsConst, TRUE, t.RefQualifier, t.IsNoexcept)

MemberRemoveVolatile(c, t) ==
    MemberFn(c, t, t.ReturnType, t.CC, t.Class, t.ArgTypes, t.IsVariadic,
             t.IsConst, FALSE, t.RefQualifier, t.IsNoexcept)

MemberAddCV(c, t) ==
    MemberFn(c, t, t.ReturnType, t.CC, t.Class, t.ArgTypes, t.IsVariadic,
             TRUE, TRUE, t.RefQualifier, t.IsNoexcept)

MemberRemoveCV(c, t) ==
    MemberFn(c, t, t.ReturnType, t.CC, t.Class, t.ArgTypes, t.IsVariadic,
             FALSE, FALSE, t.RefQualifier, t.IsNoexcept)

MemberAddLValueReference(c, t) ==
    MemberFn(c, t, t.ReturnType, t.CC, t.Class, t.ArgTypes, t.IsVariadic,
             t.IsConst, t.IsVolatile, "LValue", t.IsNoexcept)

MemberAddRValueReferenceCollapsing(c, t) ==
    MemberFn(c, t, t.ReturnType, t.CC, t.Class, t.ArgTypes, t.IsVariadic,
             t.IsConst, t.IsVolatile, IF t.RefQualifier = "LValue" THEN "LValue" ELSE "RValue",
             t.IsNoexcept)

MemberAddRValueReference(c, t) ==
    MemberFn(c, t, t.ReturnType, t.CC, t.Class, t.ArgTypes, t.IsVariadic,
             t.IsConst, t.IsVolatile, "RValue", t.IsNoexcept)

MemberRemoveReference(c, t) ==
    MemberFn(c, t, t.ReturnType, t.CC, t.Class, t.ArgTypes, t.IsVariadic,
             t.IsConst, t.IsVolatile, "None", t.IsNoexcept)

MemberAddNoexcept(c, t) ==
    MemberFn(c, t, t.ReturnType, t.CC, t.Class, t.ArgTypes, t.IsVariadic,
             t.IsConst, t.IsVolatile, t.RefQualifier, TRUE)

MemberRemoveNoexcept(c, t) ==
    MemberFn(c, t, t.ReturnType, t.CC, t.Class, t.ArgTypes, t.IsVariadic,
             t.IsConst, t.IsVolatile, t.RefQualifier, FALSE)

MemberReplaceCallingConventionTupleMisordered(c, t) ==
    LET Fn(cc) == MkPmf(c, t.ReturnType, cc, t.Class, t.ArgTypes, t.IsVariadic,
                        t.IsConst, t.IsVolatile, t.RefQualifier, t.IsNoexcept)
    IN  <<Fn("Cdecl"), Fn("Stdcall"), Fn("Vectorcall"), Fn("Fastcall"), Fn("Thiscall")>>
        \o (IF c.regcall THEN <<Fn("Regcall")>> ELSE <<>>)

MemberReplaceCallingConventionTuple(c, t) ==
    LET Fn(cc) == MkPmf(c, t.ReturnType, cc, t.Class, t.ArgTypes, t.IsVariadic,
                        t.IsConst, t.IsVolatile, t.RefQualifier, t.IsNoexcept)
    IN  <<Fn("Cdecl"), Fn("Stdcall"), Fn("Fastcall"), Fn("Vectorcall"), Fn("Thiscall")>>
        \o (IF c.regcall THEN <<Fn("Regcall")>> ELSE <<>>)

MemberReplaceCallingConvention(c, t, NewCallingConventionT) ==
    MigrateCvAndRef(t.Type,
        IF t.IsVariadic
        THEN MkPmf(c, t.ReturnType, STDEXT_CC_VARIADIC, t.Class, t.ArgTypes, t.IsVariadic,
                   t.IsConst, t.IsVolatile, t.RefQualifier, t.IsNoexcept)
        ELSE MemberReplaceCallingConventionTuple(c, t)[CCIndex(NewCallingConventionT)])

MemberReplaceClass(c, t, NewClassT) ==
    MemberFn(c, t, t.ReturnType, t.CC, NewClassT, t.ArgTypes, t.IsVariadic,
             t.IsConst, t.IsVolatile, t.RefQualifier, t.IsNoexcept)

MemberReplaceReturnType(c, t, NewReturnTypeT) ==
    MemberFn(c, t, NewReturnTypeT, t.CC, t.Class, t.ArgTypes, t.IsVariadic,
             t.IsConst, t.IsVolatile, t.RefQualifier, t.IsNoexcept)

MemberReplaceArgsDroppingEllipsis(c, t, NewArgsT) ==
    MemberFn(c, t, t.ReturnType, t.CC, t.Class, NewArgsT, FALSE,
             t.IsConst, t.IsVolatile, t.RefQualifier, t.IsNoexcept)

MemberReplaceArgs(c, t, NewArgsT) ==
    IF t.IsVariadic
    THEN MemberFn(c, t, t.ReturnType, STDEXT_CC_VARIADIC, t.Class, NewArgsT, TRUE,
                  t.IsConst, t.IsVolatile, t.RefQualifier, t.IsNoexcept)
    ELSE MemberFn(c, t, t.ReturnType, t.CC, t.Class, NewArgsT, FALSE,
                  t.IsConst, t.IsVolatile, t.RefQualifier, t.IsNoexcept)

MemberReplaceArgsTuple(c, t, NewArgsTupleT) ==
    ReplaceArgsTupleImpl(MemberReplaceArgs(c, t, NewArgsTupleT), NewArgsTupleT)

MemberReplaceNthArg(c, t, N, NewArgT) ==
    MemberReplaceArgsTuple(c, t, ReplaceNthType(N, NewArgT, t.ArgTypes))

-----------------------------------------------------------------------------
(* The helper aliases: each defers to the member of the same name of the   *)
(* specialization t = FunctionTraits<F> that was selected for F.           *)

AddVariadicArgs_t(c, t) ==
    IF t.sel = "free" THEN FreeAddVariadicArgs(c, t) ELSE MemberAddVariadicArgs(c, t)

RemoveVariadicArgs_t(c, t) ==
    IF t.sel = "free" THEN FreeRemoveVariadicArgs(c, t) ELSE MemberRemoveVariadicArgs(c, t)

MemberFunctionAddConst_t(c, t) ==
    IF t.sel = "free" THEN FreeAddConst(c, t) ELSE MemberAddConst(c, t)

MemberFunctionRemoveConst_t(c, t) ==
    IF t.sel = "free" THEN FreeRemoveConst(c, t) ELSE MemberRemoveConst(c, t)

MemberFunctionAddVolatile_t(c, t) ==
    IF t.sel = "free" THEN FreeAddVolatile(c, t) ELSE MemberAddVolatile(c, t)

MemberFunctionRemoveVolatile_t(c, t) ==
    IF t.sel = "free" THEN FreeRemoveVolatile(c, t) ELSE MemberRemoveVolatile(c, t)

MemberFunctionAddCV_t(c, t) ==
    IF t.sel = "free" THEN FreeAddCV(c, t) ELSE MemberAddCV(c, t)

MemberFunctionRemoveCV_t(c, t) ==
    IF t.sel = "free" THEN FreeRemoveCV(c, t) ELSE MemberRemoveCV(c, t)

MemberFunctionAddLValueReference_t(c, t) ==
    IF t.sel = "free" THEN FreeAddLValueReference(c, t) ELSE MemberAddLValueReference(c, t)

MemberFunctionAddRValueReference_t(c, t) ==
    IF t.sel = "free" THEN FreeAddRValueReference(c, t) ELSE MemberAddRValueReference(c, t)

MemberFunctionRemoveReference_t(c, t) ==
    IF t.sel = "free" THEN FreeRemoveReference(c, t) ELSE MemberRemoveReference(c, t)

AddNoexcept_t(c, t) ==
    IF t.sel = "free" THEN FreeAddNoexcept(c, t) ELSE MemberAddNoexcept(c, t)

RemoveNoexcept_t(c, t) ==
    IF t.sel = "free" THEN FreeRemoveNoexcept(c, t) ELSE MemberRemoveNoexcept(c, t)

ReplaceCallingConvention_t(c, t, NewCallingConventionT) ==
    IF t.sel = "free" THEN FreeReplaceCallingConvention(c, t, NewCallingConventionT) ELSE MemberReplaceCallingConvention(c, t, NewCallingConventionT)

MemberFunctionReplaceClass_t(c, t, NewClassT) ==
    IF t.sel = "free" THEN FreeReplaceClass(c, t, NewClassT) ELSE MemberReplaceClass(c, t, NewClassT)

ReplaceReturnType_t(c, t, NewReturnTypeT) ==
    IF t.sel = "free" THEN FreeReplaceReturnType(c, t, NewReturnTypeT) ELSE MemberReplaceReturnType(c, t, NewReturnTypeT)

ReplaceArgs_t(c, t, NewArgsT) ==
    IF t.sel = "free" THEN FreeReplaceArgs(c, t, NewArgsT) ELSE MemberReplaceArgs(c, t, NewArgsT)

ReplaceArgsTuple_t(c, t, NewArgsTupleT) ==
    IF t.sel = "free" THEN FreeReplaceArgsTuple(c, t, NewArgsTupleT) ELSE MemberReplaceArgsTuple(c, t, NewArgsTupleT)

ReplaceNthArg_t(c, t, N, NewArgT) ==
    IF t.sel = "free" THEN FreeReplaceNthArg(c, t, N, NewArgT) ELSE MemberReplaceNthArg(c, t, N, NewArgT)

-----------------------------------------------------------------------------
(* Build configurations and declarations *)

(* A 64-bit build: stdcall, fastcall and thiscall are replaced with cdecl, *)
(* vectorcall is kept, regcall does not exist                              *)
X64 == [free |-> {"Stdcall", "Fastcall"}, member |-> {"Stdcall", "Fastcall", "Thiscall"}, regcall |-> FALSE]

BuildConfigs == {X64}

NoReq == [cat |-> "none"]

Request(cat, ret, cc, args, variadic, noex, class, const, vol, refq, nops, templ) ==
    [cat |-> cat, ret |-> ret, cc |-> cc, args |-> args, variadic |-> variadic, noex |-> noex,
     class |-> class, const |-> const, vol |-> vol, refq |-> refq, nops |-> nops, templ |-> templ]

FreeRequests(c) ==
    {Request("free", ret, cc, args, variadic, noex, "void", FALSE, FALSE, "None", 0, FALSE) :
        ret \in RetTypes, cc \in CallingConvention(c) \ {"Thiscall"}, args \in ArgLists,
        variadic \in BOOLEAN, noex \in BOOLEAN}

AbominableRequests(c) ==
    {Request("abominable", "int", "Cdecl", <<>>, FALSE, noex, "void", const, vol, refq, 0, FALSE) :
        noex \in BOOLEAN, const \in BOOLEAN, vol \in BOOLEAN, refq \in RefQualifier}
    \ {Request("abominable", "int", "Cdecl", <<>>, FALSE, noex, "void", FALSE, FALSE, "None", 0, FALSE) :
        noex \in BOOLEAN}

MemberRequests(c) ==
    {Request("member", ret, cc, args, variadic, noex, class, const, vol, refq, 0, FALSE) :
        ret \in RetTypes, cc \in CallingConvention(c), args \in ArgLists, variadic \in BOOLEAN,
        noex \in BOOLEAN, class \in Classes, const \in BOOLEAN, vol \in BOOLEAN, refq \in RefQualifier}

(* Static member functions: their type is a plain function type *)
StaticRequests(c) ==
    {Request("static", ret, "Cdecl", args, FALSE, noex, class, FALSE, FALSE, "None", 0, FALSE) :
        ret \in RetTypes, args \in ArgLists, noex \in BOOLEAN, class \in Classes}

(* Function objects: a class with exactly one, non-template operator() *)
FunctorRequests(c) ==
    {Request("class", ret, "Cdecl", args, FALSE, FALSE, class, const, FALSE, "None", 1, FALSE) :
        ret \in RetTypes, args \in ArgLists, class \in Classes, const \in BOOLEAN}

(* Classes that are no function objects: no operator(), a member template, two overloads *)
ClassRequests(c) ==
    {Request("class", "int", "Cdecl", <<>>, FALSE, FALSE, "K", FALSE, FALSE, "None", nops, templ) :
        nops \in 0..2, templ \in BOOLEAN} \ FunctorRequests(c)

ScalarRequests == {Request("scalar", "void", "Cdecl", <<>>, FALSE, FALSE, "void", FALSE, FALSE, "None", 0, FALSE)}

(* The declarations the write traits are applied to *)
Requests(c) ==
    {r \in FreeRequests(c) \cup StaticRequests(c) \cup MemberRequests(c) \cup FunctorRequests(c) :
        r.ret = "int" /\ r.class # "L" /\ ~r.vol}

(* One declaration of every shape, acceptable or not *)
ShapeRequests(c) ==
    {r \in Requests(c) : r.ret = "int" /\ r.args = <<>> /\ r.class \in {"void", "K"} /\ ~r.vol /\ r.refq # "RValue"}
    \cup AbominableRequests(c) \cup ClassRequests(c) \cup ScalarRequests

(* The compiler gives a variadic function the cdecl convention whatever was declared *)
DeclaredKeyword(r) == IF r.variadic THEN "Cdecl" ELSE r.cc

Compile(c, r) ==
    IF r.cat \in {"free", "static"} THEN MkFn(c, r.ret, DeclaredKeyword(r), r.args, r.variadic, r.noex)
    ELSE IF r.cat = "abominable"
         THEN [MkFn(c, r.ret, DeclaredKeyword(r), r.args, r.variadic, r.noex)
               EXCEPT !.sig.const = r.const, !.sig.vol = r.vol, !.sig.refq = r.refq]
    ELSE IF r.cat = "member"
         THEN MkPmf(c, r.ret, DeclaredKeyword(r), r.class, r.args, r.variadic, r.const, r.vol, r.refq, r.noex)
    ELSE IF r.cat = "class"
         THEN [MkPmf(c, r.ret, DeclaredKeyword(r), r.class, r.args, r.variadic, r.const, r.vol, r.refq, r.noex)
               EXCEPT !.kind = "class", !.nops = r.nops, !.templ = r.templ]
    ELSE [kind |-> "scalar", sig |-> NoSig, class |-> "void", nops |-> 0, templ |-> FALSE,
          cv |-> NoCv, ptrs |-> <<>>, ref |-> "none"]

-----------------------------------------------------------------------------
(* The translation: a type is declared, wrapped in pointers, cv-qualifiers *)
(* and a reference, classified, and then rebuilt by write traits.          *)

Init ==
    /\ cfg \in BuildConfigs
    /\ req \in Requests(cfg)
    /\ F = Compile(cfg, req)
    /\ traits = FunctionTraits(cfg, F)
    /\ op = "Declare"
    /\ edits = 0
    /\ NotIterating /\ NotNaming /\ NotProbing

Halted == op = "static_assert"

(* F becomes T, and FunctionTraits is instantiated on it *)
Becomes(T, name, r) ==
    /\ F' = T
    /\ traits' = FunctionTraits(cfg, T)
    /\ op' = name
    /\ req' = r
    /\ UNCHANGED <<cfg, iteration, naming, replaced>>

(* A function decays to a pointer to it *)
Decay ==
    /\ ~Halted /\ edits = 0
    /\ is_function(F) /\ CanPoint(F)
    /\ Becomes(PointerTo(F), "Decay", NoReq)
    /\ UNCHANGED edits

AddPointer ==
    /\ ~Halted /\ edits = 0
    /\ CanPoint(F) /\ Len(F.ptrs) < MaxPtr
    /\ Becomes(PointerTo(F), "AddPointer", NoReq)
    /\ UNCHANGED edits

Qualify ==
    /\ ~Halted /\ edits = 0
    /\ HasTopCv(F) /\ TopCv(F) = NoCv
    /\ \E q \in CvSet \ {NoCv} : Becomes(SetTopCv(F, q), "Qualify", NoReq)
    /\ UNCHANGED edits

AddReference ==
    /\ ~Halted /\ edits = 0
    /\ F.ref = "none" /\ ~IsAbominable(F)
    /\ \E k \in {"lvalue", "rvalue"} : Becomes([F EXCEPT !.ref = k], "AddReference", NoReq)
    /\ UNCHANGED edits

(* Using FunctionTraits<F> when no specialization was selected halts the translation *)
StaticAssert ==
    /\ ~Halted
    /\ ~Classified(traits)
    /\ op' = "static_assert"
    /\ UNCHANGED <<cfg, F, traits, req, edits, iteration, naming, replaced>>

(* A write trait yields NewF, or its static_assert fires *)
Write(name, NewF) ==
    /\ ~Halted /\ edits < MaxEdits
    /\ IsTraitsFunction(F) /\ Classified(traits)
    /\ edits' = edits + 1
    /\ IF NewF = Invalid
       THEN op' = "static_assert" /\ UNCHANGED <<cfg, F, traits, req, iteration, naming, replaced>>
       ELSE Becomes(NewF, "Write", NoReq)

AddVariadicArgs == Write("AddVariadicArgs", AddVariadicArgs_t(cfg, traits))

RemoveVariadicArgs == Write("RemoveVariadicArgs", RemoveVariadicArgs_t(cfg, traits))

AddConst == Write("AddConst", MemberFunctionAddConst_t(cfg, traits))

RemoveConst == Write("RemoveConst", MemberFunctionRemoveConst_t(cfg, traits))

AddVolatile == Write("AddVolatile", MemberFunctionAddVolatile_t(cfg, traits))

RemoveVolatile == Write("RemoveVolatile", MemberFunctionRemoveVolatile_t(cfg, traits))

AddCV == Write("AddCV", MemberFunctionAddCV_t(cfg, traits))

RemoveCV == Write("RemoveCV", MemberFunctionRemoveCV_t(cfg, traits))

AddLValueReference == Write("AddLValueReference", MemberFunctionAddLValueReference_t(cfg, traits))

AddRValueReference == Write("AddRValueReference", MemberFunctionAddRValueReference_t(cfg, traits))

RemoveReference == Write("RemoveReference", MemberFunctionRemoveReference_t(cfg, traits))

AddNoexcept == Write("AddNoexcept", AddNoexcept_t(cfg, traits))

RemoveNoexcept == Write("RemoveNoexcept", RemoveNoexcept_t(cfg, traits))

ReplaceCallingConvention ==
    \E NewCallingConventionT \in CallingConvention(cfg) :
        Write("ReplaceCallingConvention", ReplaceCallingConvention_t(cfg, traits, NewCallingConventionT))

ReplaceClass ==
    \E NewClassT \in Classes :
        Write("ReplaceClass", MemberFunctionReplaceClass_t(cfg, traits, NewClassT))

ReplaceReturnType ==
    \E NewReturnTypeT \in RetTypes :
        Write("ReplaceReturnType", ReplaceReturnType_t(cfg, traits, NewReturnTypeT))

ReplaceArgs ==
    \E NewArgsT \in ArgLists :
        Write("ReplaceArgs", ReplaceArgs_t(cfg, traits, NewArgsT))

ReplaceArgsTuple ==
    \E NewArgsTupleT \in ArgLists :
        Write("ReplaceArgsTuple", ReplaceArgsTuple_t(cfg, traits, NewArgsTupleT))

ReplaceNthArg ==
    \E N \in 0..MaxArgs, NewArgT \in ArgTypes :
        Write("ReplaceNthArg", ReplaceNthArg_t(cfg, traits, N, NewArgT))

Next ==
    \/ Decay \/ Qualify \/ AddReference
    \/ AddVariadicArgs
    \/ RemoveVariadicArgs
    \/ AddConst
    \/ RemoveConst
    \/ AddVolatile
    \/ RemoveVolatile
    \/ AddCV
    \/ RemoveCV
    \/ AddLValueReference
    \/ AddRValueReference
    \/ RemoveReference
    \/ AddNoexcept
    \/ RemoveNoexcept
    \/ ReplaceCallingConvention
    \/ ReplaceClass
    \/ ReplaceReturnType
    \/ ReplaceArgs
    \/ ReplaceArgsTuple
    \/ ReplaceNthArg

Spec == Init /\ [][Next]_vars

-----------------------------------------------------------------------------
(* Chains of write traits: each write trait is applied to what the one     *)
(* before it yielded. The chains start from functions with the longest     *)
(* parameter list, declared noexcept, with and without an ellipsis, and    *)
(* from function objects.                                                  *)

ChainRequests(c) ==
    {r \in Requests(c) :
        /\ Len(r.args) = MaxArgs
        /\ r.cc \in {"Cdecl", "Vectorcall"}
        /\ r.cat \in {"free", "static", "member"} => r.noex
        /\ r.cat = "member" => (r.const /\ r.refq = "RValue")}

InitChain ==
    /\ cfg \in BuildConfigs
    /\ req \in ChainRequests(cfg)
    /\ F = Compile(cfg, req)
    /\ traits = FunctionTraits(cfg, F)
    /\ op = "Declare"
    /\ edits = 0
    /\ NotIterating /\ NotNaming /\ NotProbing

SpecChain == InitChain /\ [][Next]_vars

-----------------------------------------------------------------------------
(* The shapes of types: declarations of every kind under pointer layers,   *)
(* cv-qualifiers and a reference, and the instantiation of FunctionTraits  *)
(* on them.                                                                *)

InitShape ==
    /\ cfg \in BuildConfigs
    /\ req \in ShapeRequests(cfg)
    /\ F = Compile(cfg, req)
    /\ traits = FunctionTraits(cfg, F)
    /\ op = "Declare"
    /\ edits = 0
    /\ NotIterating /\ NotNaming /\ NotProbing

NextShape == AddPointer \/ Qualify \/ AddReference \/ StaticAssert

SpecShape == InitShape /\ [][NextShape]_vars

-----------------------------------------------------------------------------
(* Calling conventions under every build configuration: one function of    *)
(* each category is declared with each keyword, and its convention and     *)
(* its ellipsis are rewritten.                                             *)

AllConfigs ==
    {[free |-> f, member |-> m, regcall |-> FALSE] :
        f \in SUBSET {"Stdcall", "Fastcall", "Vectorcall"},
        m \in SUBSET {"Stdcall", "Fastcall", "Vectorcall", "Thiscall"}}
    \cup
    {[free |-> f \cup rf, member |-> m \cup rm, regcall |-> TRUE] :
        f \in {{}, {"Stdcall", "Fastcall"}}, rf \in SUBSET {"Regcall"},
        m \in {{}, {"Stdcall", "Fastcall", "Thiscall"}}, rm \in SUBSET {"Regcall"}}

ConventionRequests(c) ==
    {r \in FreeRequests(c) \cup MemberRequests(c) :
        /\ r.ret = "int" /\ r.args = <<>> /\ ~r.noex
        /\ r.class \in {"void", "K"} /\ ~r.const /\ ~r.vol /\ r.refq = "None"}

InitCC ==
    /\ cfg \in AllConfigs
    /\ req \in ConventionRequests(cfg)
    /\ F = Compile(cfg, req)
    /\ traits = FunctionTraits(cfg, F)
    /\ op = "Declare"
    /\ edits = 0
    /\ NotIterating /\ NotNaming /\ NotProbing

NextCC == ReplaceCallingConvention \/ AddVariadicArgs \/ RemoveVariadicArgs

SpecCC == InitCC /\ [][NextCC]_vars

-----------------------------------------------------------------------------
(* CallingConventionReplacedWithCdecl<CallingConventionT, IsFreeFuncT>()   *)
(* called on its own, under every build configuration.                     *)

InitReplaced ==
    /\ cfg \in AllConfigs
    /\ req \in ScalarRequests
    /\ F = Compile(cfg, req)
    /\ traits = FunctionTraits(cfg, F)
    /\ op = "Declare"
    /\ edits = 0
    /\ NotIterating /\ NotNaming /\ NotProbing

(* One of the branches of "if constexpr" that hold a return statement is   *)
(* taken                                                                   *)
Returns(c, cc, isFreeFunc) ==
    \/ cc \in {"Cdecl", "Stdcall", "Fastcall", "Vectorcall"}
    \/ ~isFreeFunc /\ cc = "Thiscall"
    \/ c.regcall

(* What a call comes to: the value returned, and for a call that reaches   *)
(* the end of the function without a return statement no constant          *)
(* expression ("ill-formed") or, when it is run, an undefined value        *)
Outcomes(c, cc, isFreeFunc) ==
    IF Returns(c, cc, isFreeFunc)
    THEN {IF CallingConventionReplacedWithCdecl(c, cc, isFreeFunc) THEN "true" ELSE "false"}
    ELSE {"ill-formed", "true", "false"}

CallReplacedWithCdecl ==
    /\ op = "Declare"
    /\ \E CallingConventionT \in CallingConvention(cfg), IsFreeFuncT \in BOOLEAN :
           \E r \in Outcomes(cfg, CallingConventionT, IsFreeFuncT) :
               replaced' = [CallingConventionT |-> CallingConventionT, IsFreeFuncT |-> IsFreeFuncT,
                            returned |-> r]
    /\ op' = "CallingConventionReplacedWithCdecl"
    /\ UNCHANGED <<cfg, F, traits, req, edits, iteration, naming>>

NextReplaced == CallReplacedWithCdecl

SpecReplaced == InitReplaced /\ [][NextReplaced]_vars

-----------------------------------------------------------------------------
(* The selection of a specialization under every build configuration: a    *)
(* function of each category declared with each keyword, a function        *)
(* object, and types that are no functions, as they are, behind a pointer, *)
(* cv-qualified, and behind a reference.                                   *)

SelectRequests(c) ==
    {r \in ConventionRequests(c) : r.variadic => r.cc = "Cdecl"}
    \cup {r \in FunctorRequests(c) : r.ret = "int" /\ r.args = <<>> /\ r.class = "K" /\ ~r.const}
    \cup {r \in AbominableRequests(c) : r.const /\ ~r.vol /\ r.refq = "None" /\ ~r.noex}
    \cup ClassRequests(c) \cup ScalarRequests

InitSelect ==
    /\ cfg \in AllConfigs
    /\ req \in SelectRequests(cfg)
    /\ F = Compile(cfg, req)
    /\ traits = FunctionTraits(cfg, F)
    /\ op = "Declare"
    /\ edits = 0
    /\ NotIterating /\ NotNaming /\ NotProbing

NextSelect == Decay \/ Qualify \/ AddReference \/ StaticAssert

SpecSelect == InitSelect /\ [][NextSelect]_vars

-----------------------------------------------------------------------------
(* Properties *)

AttributeNames ==
    {"ReturnType", "ArgTypes", "ArgCount", "IsVariadic", "CallingConvention", "IsNoexcept",
     "Class", "IsConst", "IsVolatile", "RefQualifier"}

(* The classification attributes of a record *)
Attributes(t) == [a \in AttributeNames |-> t[a]]

(* The attributes a function type or pointer to member function is made of *)
AttributeOf(T, a) ==
    CASE a = "ReturnType" -> T.sig.ret
      [] a = "ArgTypes" -> T.sig.args
      [] a = "ArgCount" -> Len(T.sig.args)
      [] a = "IsVariadic" -> T.sig.variadic
      [] a = "CallingConvention" -> T.sig.cc
      [] a = "IsNoexcept" -> T.sig.noex
      [] a = "Class" -> (IF T.kind = "fn" THEN "void" ELSE T.class)
      [] a = "IsConst" -> T.sig.const
      [] a = "IsVolatile" -> T.sig.vol
      [] a = "RefQualifier" -> T.sig.refq

SignatureOf(T) == [a \in AttributeNames |-> AttributeOf(T, a)]

(* The keywords the build replaces with cdecl for the category of r *)
Normalized(c, r) == IF r.cat = "member" THEN c.member ELSE c.free

(* The convention the compiler applies to the declaration r *)
EffectiveConvention(c, r) ==
    IF r.variadic \/ r.cc \in Normalized(c, r) THEN "Cdecl" ELSE r.cc

(* The attributes the declaration r was written with *)
DeclaredAttributes(c, r) ==
    [a \in AttributeNames |->
        CASE a = "ReturnType" -> r.ret
          [] a = "ArgTypes" -> r.args
          [] a = "ArgCount" -> Len(r.args)
          [] a = "IsVariadic" -> r.variadic
          [] a = "CallingConvention" -> EffectiveConvention(c, r)
          [] a = "IsNoexcept" -> r.noex
          [] a = "Class" -> (IF r.cat = "member" THEN r.class ELSE "void")
          [] a = "IsConst" -> r.const
          [] a = "IsVolatile" -> r.vol
          [] a = "RefQualifier" -> r.refq]

(* The pointer layers with their cv-qualifiers, the cv-qualifiers of a     *)
(* pointer to member, and the reference around a function                  *)
Wrapper(T) == [ptrs |-> T.ptrs, cv |-> T.cv, ref |-> T.ref]

(* F is a function or a pointer to member function under its wrappers *)
IsFunctionShaped == F.kind \in {"fn", "pmf"}

(* C1: FunctionTraits of a raw function, of a pointer or reference to it,  *)
(* of a pointer to member function or of a reference to one reports        *)
(* exactly the return type, parameters, ellipsis, effective calling        *)
(* convention, noexcept, class, const, volatile and ref-qualifier the type *)
(* was constructed from.                                                   *)
C1_RoundTrip ==
    /\ (op = "Declare" /\ req.cat \in {"free", "static", "member"}) =>
           Classified(traits) /\ Attributes(traits) = DeclaredAttributes(cfg, req)
    /\ IsFunctionShaped =>
           Classified(traits) /\ Attributes(traits) = SignatureOf(F)

C1_Witness ==
    /\ op = "AddReference" /\ F.kind = "pmf" /\ F.ref = "rvalue" /\ F.cv.c
    /\ F.sig.cc = "Vectorcall" /\ F.sig.const /\ F.sig.refq = "RValue" /\ F.sig.noex
    /\ F.sig.args # <<>> /\ F.class = "K"
    /\ Classified(traits) /\ traits.CallingConvention = "Vectorcall" /\ traits.ArgCount = 1

(* The analysed type is a non-static member function: a pointer to member  *)
(* function, or a function object (its operator())                         *)
IsNonStaticMember(T) == T.kind \in {"pmf", "class"}

(* C2: Class is void exactly when the analysed type is not a non-static    *)
(* member function; IsMemberFunction is "Class is not void" and            *)
(* IsFreeFunction its negation; when Class is void, IsConst and IsVolatile *)
(* are false and RefQualifier is None; a static member function is         *)
(* classified as a free function.                                          *)
C2_ClassVoidIffNotMember ==
    Classified(traits) =>
        /\ (traits.Class = "void") <=> ~IsNonStaticMember(F)
        /\ traits.IsMemberFunction <=> (traits.Class # "void")
        /\ traits.IsFreeFunction <=> ~traits.IsMemberFunction
        /\ (traits.Class = "void") =>
               ~traits.IsConst /\ ~traits.IsVolatile /\ traits.RefQualifier = "None"
        /\ (op = "Declare" /\ req.cat = "static") =>
               traits.IsFreeFunction /\ traits.Class = "void"

C2_Witness ==
    /\ op = "Declare" /\ req.cat = "static" /\ req.class = "K"
    /\ Classified(traits) /\ traits.IsFreeFunction /\ traits.Class = "void"

(* C3: a function declared with convention X reports X when the build      *)
(* keeps X for its category, and Cdecl when the build replaces X with      *)
(* cdecl: the specialization for X is then disabled and the one for cdecl  *)
(* is selected.  A variadic function always reports Cdecl.                 *)
C3_EffectiveConvention ==
    /\ (op = "Declare" /\ ~req.variadic) =>
           /\ Classified(traits)
           /\ IF req.cc \in Normalized(cfg, req)
              THEN /\ traits.CallingConvention = "Cdecl" /\ traits.CC = "Cdecl"
                   /\ CallingConventionReplacedWithCdecl(cfg, req.cc, req.cat = "free") = TRUE
              ELSE traits.CallingConvention = req.cc
    /\ (IsFunctionShaped /\ F.sig.variadic) =>
           Classified(traits) /\ traits.CallingConvention = "Cdecl"

C3_Witness ==
    /\ op = "Declare" /\ req.cat = "free" /\ ~req.variadic
    /\ req.cc = "Stdcall" /\ "Stdcall" \in cfg.free /\ "Vectorcall" \notin cfg.free
    /\ Classified(traits) /\ traits.CallingConvention = "Cdecl"

(* The function type or pointer to member function under the wrappers of T *)
CoreOf(T) == [T EXCEPT !.ptrs = <<>>, !.cv = NoCv, !.ref = "none"]

(* C4: FunctionTraits of a function or pointer to member function P under  *)
(* a pointer with any cv-qualifiers (functions), cv-qualifiers (pointers   *)
(* to member) and an lvalue or rvalue reference reports the same           *)
(* attributes as FunctionTraits of P; its Type is the type that was passed.*)
C4_NormalizationLosesNothing ==
    IsFunctionShaped =>
        LET P == FunctionTraits(cfg, CoreOf(F))
        IN  /\ Classified(traits) /\ Classified(P)
            /\ Attributes(traits) = Attributes(P)
            /\ traits.Type = F
            /\ P.Type = CoreOf(F)

C4_Witness ==
    /\ op = "AddReference" /\ F.kind = "fn" /\ F.ref = "rvalue"
    /\ Len(F.ptrs) = 1 /\ F.ptrs[1] = [c |-> TRUE, v |-> TRUE]
    /\ F.sig.noex /\ F.sig.variadic
    /\ Classified(traits) /\ traits.Type = F /\ traits.Type # CoreOf(F)

(* C5 as stated: FunctionTraits<F> falls through to its primary template   *)
(* exactly when IsTraitsFunction_v<F> is false, for every core under       *)
(* pointer layers with any cv-qualifiers and an optional reference.        *)
C5_PrimaryIffNotTraitsFunction ==
    (traits.sel = "primary") <=> ~IsTraitsFunction(F)

(* The shapes the header lists as acceptable *)
AcceptableShape(T) ==
    \/ T.kind = "fn" /\ Len(T.ptrs) <= 1
                     /\ ~T.sig.const /\ ~T.sig.vol /\ T.sig.refq = "None"
    \/ T.kind = "pmf" /\ T.ptrs = <<>>
    \/ T.kind = "class" /\ T.ptrs = <<>> /\ T.nops = 1 /\ ~T.templ

(* C6: IsTraitsFunction_v is true exactly for a function type without      *)
(* qualifiers, a pointer to one with any cv-qualifiers, a pointer to       *)
(* member function with any cv-qualifiers, a function object, and a        *)
(* reference to any of these; it is false for abominable function types,   *)
(* pointers to pointers, pointers to function objects and other types.     *)
C6_TraitsFunctionShapes ==
    IsTraitsFunction(F) <=> AcceptableShape(F)

C6_Witness ==
    /\ op = "AddReference" /\ F.kind = "fn" /\ F.ref = "lvalue"
    /\ Len(F.ptrs) = 1 /\ F.ptrs[1].c /\ F.ptrs[1].v
    /\ IsTraitsFunction(F)

(* C7: a class whose operator() is overloaded or a template is no functor, *)
(* and FunctionTraits of it, of a cv-qualified copy or of a reference to   *)
(* it selects the primary template: no overload is picked.                 *)
C7_OverloadedCallOperatorRejected ==
    (F.kind = "class" /\ (F.nops >= 2 \/ F.templ)) =>
        ~IsFunctor(F) /\ ~IsTraitsFunction(F) /\ traits = Primary

C7_Witness ==
    /\ op = "static_assert" /\ F.kind = "class" /\ F.nops = 2 /\ ~F.templ
    /\ F.ref = "lvalue" /\ F.ptrs = <<>>
    /\ traits = Primary

(* The members of a classification record *)
MemberNames ==
    AttributeNames \cup {"Type", "IsMemberFunction", "IsFreeFunction", "IsFunctor"}

Members(t) == [a \in MemberNames |-> t[a]]

(* FunctionTraits<decltype(&F::operator())> for the function object under F *)
CallOperatorTraits == FunctionTraits(cfg, OperatorType(RemoveRefAndPtrAndCv(F)))

(* C8 as stated: every member of FunctionTraits of a functor equals the    *)
(* member of FunctionTraits of the type of its operator().                 *)
C8_AllMembersEqual ==
    IsFunctor(F) =>
        Classified(traits) /\ Members(traits) = Members(CallOperatorTraits)

(* C8: every member of FunctionTraits of a functor, of a cv-qualified      *)
(* functor or of a reference to one equals the member of FunctionTraits of *)
(* the type of its operator(), except IsFunctor, which is true for the     *)
(* functor and false for the pointer to member function.                   *)
C8_FunctorAsCallOperator ==
    IsFunctor(F) =>
        /\ Classified(traits) /\ Classified(CallOperatorTraits)
        /\ \A a \in MemberNames \ {"IsFunctor"} : traits[a] = CallOperatorTraits[a]
        /\ traits.IsFunctor /\ ~CallOperatorTraits.IsFunctor

C8_Witness ==
    /\ op = "AddReference" /\ F.kind = "class" /\ F.cv.c /\ F.ref = "lvalue"
    /\ F.sig.const /\ F.sig.args # <<>>
    /\ Classified(traits) /\ traits.IsFunctor /\ traits.Type = OperatorType(RemoveRefAndPtrAndCv(F))

(* The type G a write trait yields for F has the wrappers of F and the     *)
(* attributes of F, except the targeted ones                               *)
Preserves(G, targeted) ==
    (G # Invalid) =>
        /\ G.kind = F.kind
        /\ Wrapper(G) = Wrapper(F)
        /\ \A a \in AttributeNames \ targeted : AttributeOf(G, a) = AttributeOf(F, a)

(* The frame of every write trait but AddVariadicArgs *)
FrameOfWriteTraits ==
    /\ Preserves(RemoveVariadicArgs_t(cfg, traits), {"IsVariadic"})
    /\ Preserves(MemberFunctionAddConst_t(cfg, traits), {"IsConst"})
    /\ Preserves(MemberFunctionRemoveConst_t(cfg, traits), {"IsConst"})
    /\ Preserves(MemberFunctionAddVolatile_t(cfg, traits), {"IsVolatile"})
    /\ Preserves(MemberFunctionRemoveVolatile_t(cfg, traits), {"IsVolatile"})
    /\ Preserves(MemberFunctionAddCV_t(cfg, traits), {"IsConst", "IsVolatile"})
    /\ Preserves(MemberFunctionRemoveCV_t(cfg, traits), {"IsConst", "IsVolatile"})
    /\ Preserves(MemberFunctionAddLValueReference_t(cfg, traits), {"RefQualifier"})
    /\ Preserves(MemberFunctionAddRValueReference_t(cfg, traits), {"RefQualifier"})
    /\ Preserves(MemberFunctionRemoveReference_t(cfg, traits), {"RefQualifier"})
    /\ Preserves(AddNoexcept_t(cfg, traits), {"IsNoexcept"})
    /\ Preserves(RemoveNoexcept_t(cfg, traits), {"IsNoexcept"})
    /\ \A NewCallingConventionT \in CallingConvention(cfg) :
           Preserves(ReplaceCallingConvention_t(cfg, traits, NewCallingConventionT),
                     {"CallingConvention"})
    /\ \A NewClassT \in Classes :
           Preserves(MemberFunctionReplaceClass_t(cfg, traits, NewClassT), {"Class"})
    /\ \A NewReturnTypeT \in RetTypes :
           Preserves(ReplaceReturnType_t(cfg, traits, NewReturnTypeT), {"ReturnType"})
    /\ \A NewArgsT \in ArgLists :
           /\ Preserves(ReplaceArgs_t(cfg, traits, NewArgsT), {"ArgTypes", "ArgCount"})
           /\ Preserves(ReplaceArgsTuple_t(cfg, traits, NewArgsT), {"ArgTypes", "ArgCount"})
    /\ \A N \in 0..MaxArgs, NewArgT \in ArgTypes :
           Preserves(ReplaceNthArg_t(cfg, traits, N, NewArgT), {"ArgTypes", "ArgCount"})

(* C9 as stated: every write trait yields a type that differs from its     *)
(* input in the targeted attribute only; AddVariadicArgs targets the       *)
(* ellipsis.                                                               *)
C9_ExactlyOneAttribute ==
    IsFunctionShaped =>
        /\ Preserves(AddVariadicArgs_t(cfg, traits), {"IsVariadic"})
        /\ FrameOfWriteTraits

(* C9: applied to a function or pointer to member function under its       *)
(* wrappers, every write trait yields a type with the same wrappers that   *)
(* differs from the input in the targeted attribute only, except that      *)
(* AddVariadicArgs also sets the calling convention to Cdecl.              *)
C9_WriteTraitFrame ==
    IsFunctionShaped =>
        /\ Preserves(AddVariadicArgs_t(cfg, traits), {"IsVariadic", "CallingConvention"})
        /\ AttributeOf(AddVariadicArgs_t(cfg, traits), "IsVariadic")
        /\ AttributeOf(AddVariadicArgs_t(cfg, traits), "CallingConvention") = "Cdecl"
        /\ FrameOfWriteTraits

C9_Witness ==
    /\ op = "Write" /\ F.kind = "pmf" /\ F.ref = "rvalue" /\ F.cv.c
    /\ F.sig.cc = "Vectorcall" /\ ~F.sig.variadic /\ F.sig.noex
    /\ Classified(traits) /\ traits.CallingConvention = "Vectorcall"
    /\ AttributeOf(AddVariadicArgs_t(cfg, traits), "CallingConvention") = "Cdecl"
    /\ Wrapper(AddVariadicArgs_t(cfg, traits)) = Wrapper(F)

(* C10: for a function, a pointer to it with any cv-qualifiers, or a       *)
(* reference to either, AddConst, RemoveConst, AddVolatile,                *)
(* RemoveVolatile, AddCV, RemoveCV, AddLValueReference,                    *)
(* AddRValueReference, RemoveReference and ReplaceClass yield exactly F.   *)
C10_InapplicableEditNoOp ==
    (F.kind = "fn" /\ IsTraitsFunction(F)) =>
        /\ Classified(traits)
        /\ MemberFunctionAddConst_t(cfg, traits) = F
        /\ MemberFunctionRemoveConst_t(cfg, traits) = F
        /\ MemberFunctionAddVolatile_t(cfg, traits) = F
        /\ MemberFunctionRemoveVolatile_t(cfg, traits) = F
        /\ MemberFunctionAddCV_t(cfg, traits) = F
        /\ MemberFunctionRemoveCV_t(cfg, traits) = F
        /\ MemberFunctionAddLValueReference_t(cfg, traits) = F
        /\ MemberFunctionAddRValueReference_t(cfg, traits) = F
        /\ MemberFunctionRemoveReference_t(cfg, traits) = F
        /\ \A NewClassT \in Classes : MemberFunctionReplaceClass_t(cfg, traits, NewClassT) = F

C10_Witness ==
    /\ op = "Write" /\ F.kind = "fn" /\ F.ref = "lvalue"
    /\ Len(F.ptrs) = 1 /\ F.ptrs[1].c /\ ~F.ptrs[1].v
    /\ Classified(traits) /\ MemberFunctionAddConst_t(cfg, traits) = F

(* The types the write traits yield when each sets an attribute to the     *)
(* value it already has                                                    *)
UnchangingEdits ==
    {IF traits.IsVariadic THEN AddVariadicArgs_t(cfg, traits) ELSE RemoveVariadicArgs_t(cfg, traits),
     IF traits.IsConst THEN MemberFunctionAddConst_t(cfg, traits) ELSE MemberFunctionRemoveConst_t(cfg, traits),
     IF traits.IsVolatile THEN MemberFunctionAddVolatile_t(cfg, traits) ELSE MemberFunctionRemoveVolatile_t(cfg, traits),
     IF traits.IsConst /\ traits.IsVolatile THEN MemberFunctionAddCV_t(cfg, traits) ELSE traits.Type,
     IF ~traits.IsConst /\ ~traits.IsVolatile THEN MemberFunctionRemoveCV_t(cfg, traits) ELSE traits.Type,
     CASE traits.RefQualifier = "LValue" -> MemberFunctionAddLValueReference_t(cfg, traits)
       [] traits.RefQualifier = "RValue" -> MemberFunctionAddRValueReference_t(cfg, traits)
       [] OTHER -> MemberFunctionRemoveReference_t(cfg, traits),
     IF traits.IsNoexcept THEN AddNoexcept_t(cfg, traits) ELSE RemoveNoexcept_t(cfg, traits),
     ReplaceCallingConvention_t(cfg, traits, traits.CallingConvention),
     MemberFunctionReplaceClass_t(cfg, traits, traits.Class),
     ReplaceReturnType_t(cfg, traits, traits.ReturnType),
     ReplaceArgs_t(cfg, traits, traits.ArgTypes),
     ReplaceArgsTuple_t(cfg, traits, traits.ArgTypes)}
    \cup {ReplaceNthArg_t(cfg, traits, N, traits.ArgTypes[N + 1]) : N \in 0..(traits.ArgCount - 1)}

(* C11 as stated: for every accepted input F, a write trait that sets an   *)
(* attribute to the value it already has yields a type identical to F.     *)
C11_IdempotentOnEveryInput ==
    (IsTraitsFunction(F) /\ Classified(traits)) =>
        \A G \in UnchangingEdits : G = F

(* C11: a write trait that sets an attribute to the value it already has   *)
(* yields the Type member of FunctionTraits<F>: F itself when F is a       *)
(* function or pointer to member function under its wrappers, and the type *)
(* of operator(), without the functor's cv-qualifiers and reference, when  *)
(* F is a functor.                                                         *)
C11_Idempotent ==
    (IsTraitsFunction(F) /\ Classified(traits)) =>
        /\ \A G \in UnchangingEdits : G = traits.Type
        /\ IsFunctionShaped => traits.Type = F
        /\ IsFunctor(F) => traits.Type = OperatorType(RemoveRefAndPtrAndCv(F))

C11_Witness ==
    /\ op = "AddReference" /\ F.kind = "pmf" /\ F.ref = "lvalue" /\ F.cv.v
    /\ F.sig.const /\ F.sig.noex /\ F.sig.variadic /\ F.sig.refq = "RValue"
    /\ Classified(traits)
    /\ MemberFunctionAddConst_t(cfg, traits) = F /\ AddNoexcept_t(cfg, traits) = F
    /\ AddVariadicArgs_t(cfg, traits) = F /\ MemberFunctionAddRValueReference_t(cfg, traits) = F

(* C12: ReplaceNthArg<N, T> with N < ArgCount yields a type whose          *)
(* parameter list has the length of the original, T at position N and the  *)
(* original parameter at every other position; the return type, calling    *)
(* convention, noexcept, class, const, volatile, ref-qualifier and the     *)
(* ellipsis are those of the original.                                     *)
C12_ReplaceNthArgFrame ==
    (IsTraitsFunction(F) /\ Classified(traits)) =>
        \A N \in 0..(traits.ArgCount - 1), NewArgT \in ArgTypes :
            LET G == ReplaceNthArg_t(cfg, traits, N, NewArgT)
            IN  /\ G # Invalid
                /\ Len(G.sig.args) = traits.ArgCount
                /\ \A i \in 1..traits.ArgCount :
                       G.sig.args[i] = (IF i = N + 1 THEN NewArgT ELSE traits.ArgTypes[i])
                /\ \A a \in AttributeNames \ {"ArgTypes"} : AttributeOf(G, a) = traits[a]

C12_Witness ==
    /\ op = "Write" /\ edits = 1 /\ F.kind = "pmf" /\ F.ref = "lvalue"
    /\ F.sig.args = <<"int", "double">> /\ F.sig.variadic /\ F.sig.const /\ F.sig.noex
    /\ Classified(traits) /\ traits.ArgCount = 2 /\ traits.IsVariadic
    /\ ReplaceNthArg_t(cfg, traits, 0, "double").sig.args = <<"double", "double">>

(* C13: ReplaceNthArg<N, T> and ReplaceNthType with N not less than the    *)
(* number of parameters fail at compile time and yield no type, also for   *)
(* N = 0 on an empty parameter list, with or without an ellipsis; no       *)
(* parameter is appended.                                                  *)
C13_ReplaceNthArgOutOfRange ==
    (IsTraitsFunction(F) /\ Classified(traits)) =>
        \A N \in traits.ArgCount..(MaxArgs + 1), NewArgT \in ArgTypes :
            /\ ReplaceNthType(N, NewArgT, traits.ArgTypes) = InvalidTuple
            /\ ReplaceArgsTuple_t(cfg, traits, ReplaceNthType(N, NewArgT, traits.ArgTypes)) = Invalid
            /\ ReplaceNthArg_t(cfg, traits, N, NewArgT) = Invalid

C13_Witness ==
    /\ op = "static_assert" /\ edits = 1
    /\ Classified(traits) /\ traits.ArgCount = 0 /\ traits.IsVariadic
    /\ F.sig.args = <<>> /\ F.sig.variadic
    /\ ReplaceNthArg_t(cfg, traits, 0, "int") = Invalid

(* The keywords the build replaces with cdecl on a function of the         *)
(* category of the classified type.                                        *)
NormalizedAway == IF traits.IsMemberFunction THEN cfg.member ELSE cfg.free

(* C14 as stated: ReplaceCallingConvention<X> returns the input type       *)
(* unchanged when X is a convention the compiler normalizes away for the   *)
(* input's category, and when X is Thiscall and the input is a free        *)
(* function, whatever the effective convention of the input is.            *)
C14_NormalizedIsNoOp ==
    (IsTraitsFunction(F) /\ Classified(traits)) =>
        \A X \in CallingConvention(cfg) :
            (X \in NormalizedAway \/ (X = "Thiscall" /\ traits.IsFreeFunction))
                => ReplaceCallingConvention_t(cfg, traits, X) = F

(* C14: ReplaceCallingConvention<X> with X a convention the compiler       *)
(* normalizes away for the input's category yields the input with the      *)
(* calling convention Cdecl, which is the input itself exactly when the    *)
(* effective convention of the input is Cdecl; with X = Thiscall on a free *)
(* function it returns the input unchanged whatever its convention is.     *)
C14_NormalizedYieldsCdecl ==
    (IsTraitsFunction(F) /\ Classified(traits)) =>
        \A X \in CallingConvention(cfg) :
            LET G == ReplaceCallingConvention_t(cfg, traits, X)
            IN  /\ X \in NormalizedAway =>
                      /\ G = [F EXCEPT !.sig.cc = "Cdecl"]
                      /\ (G = F) <=> (traits.CallingConvention = "Cdecl")
                /\ (X = "Thiscall" /\ traits.IsFreeFunction) => G = F

C14_Witness ==
    /\ F.kind = "fn" /\ Classified(traits) /\ traits.IsFreeFunction
    /\ traits.CallingConvention = "Vectorcall" /\ ~traits.IsVariadic
    /\ "Stdcall" \in cfg.free
    /\ ReplaceCallingConvention_t(cfg, traits, "Stdcall") # F
    /\ ReplaceCallingConvention_t(cfg, traits, "Stdcall").sig.cc = "Cdecl"
    /\ ReplaceCallingConvention_t(cfg, traits, "Thiscall") = F

(* The parameter lists ReplaceArgs is given *)
NewArgLists == ArgLists \cup {<<"double">>, <<"double", "int">>}

(* C21: ReplaceArgs<NewArgs...> yields a type whose parameter list is      *)
(* NewArgs, the empty list when none are given, and whose ellipsis is the  *)
(* one of the input: a variadic input stays variadic and a non-variadic    *)
(* one stays non-variadic; ReplaceArgsTuple<std::tuple<NewArgs...>> yields *)
(* the same type as ReplaceArgs<NewArgs...>.                               *)
C21_ReplaceArgsWholeList ==
    (IsTraitsFunction(F) /\ Classified(traits)) =>
        \A NewArgsT \in NewArgLists :
            LET G == ReplaceArgs_t(cfg, traits, NewArgsT)
            IN  /\ G # Invalid
                /\ G.sig.args = NewArgsT
                /\ G.sig.variadic = traits.IsVariadic
                /\ ReplaceArgsTuple_t(cfg, traits, NewArgsT) = G

C21_Witness ==
    /\ op = "Write" /\ edits = 1 /\ F.kind = "fn" /\ Len(F.ptrs) = 1 /\ F.ref = "lvalue"
    /\ F.sig.args = <<"int", "int">> /\ F.sig.variadic /\ F.sig.noex
    /\ Classified(traits) /\ traits.IsVariadic
    /\ ReplaceArgs_t(cfg, traits, <<>>).sig.args = <<>>
    /\ ReplaceArgs_t(cfg, traits, <<>>).sig.variadic
    /\ ReplaceArgsTuple_t(cfg, traits, <<"double">>) = ReplaceArgs_t(cfg, traits, <<"double">>)

(* The attributes AddVariadicArgs and RemoveVariadicArgs keep *)
KeptByVariadicArgs ==
    {"ReturnType", "ArgTypes", "ArgCount", "IsNoexcept", "Class", "IsConst", "IsVolatile",
     "RefQualifier"}

(* C22: AddVariadicArgs yields the input with a trailing ellipsis and the  *)
(* calling convention Cdecl; RemoveVariadicArgs yields the input without   *)
(* the ellipsis; both keep the return type, the non-variadic parameters,   *)
(* noexcept, the class, the cv- and ref-qualifiers and the outer wrappers, *)
(* and RemoveVariadicArgs keeps the calling convention as well.            *)
C22_VariadicArgs ==
    (IsTraitsFunction(F) /\ Classified(traits)) =>
        LET G == AddVariadicArgs_t(cfg, traits)
            H == RemoveVariadicArgs_t(cfg, traits)
        IN  /\ G.sig.variadic /\ G.sig.cc = "Cdecl"
            /\ traits.IsVariadic => G = traits.Type
            /\ \A a \in KeptByVariadicArgs : AttributeOf(G, a) = traits[a]
            /\ Wrapper(G) = Wrapper(traits.Type)
            /\ ~H.sig.variadic
            /\ \A a \in KeptByVariadicArgs \cup {"CallingConvention"} : AttributeOf(H, a) = traits[a]
            /\ Wrapper(H) = Wrapper(traits.Type)

C22_Witness ==
    /\ op = "Write" /\ edits = 1 /\ F.kind = "fn" /\ Len(F.ptrs) = 1 /\ F.ptrs[1].c
    /\ F.sig.cc = "Vectorcall" /\ ~F.sig.variadic /\ F.sig.noex /\ F.sig.args = <<"int", "int">>
    /\ Classified(traits) /\ traits.CallingConvention = "Vectorcall"
    /\ AddVariadicArgs_t(cfg, traits).sig.variadic
    /\ AddVariadicArgs_t(cfg, traits).sig.cc = "Cdecl"
    /\ AddVariadicArgs_t(cfg, traits).sig.args = <<"int", "int">>
    /\ RemoveVariadicArgs_t(cfg, traits) = F

(* The attributes the edits of the ref-qualifier keep *)
KeptByReferenceEdits == AttributeNames \ {"RefQualifier"}

(* C23: on a non-static member function AddLValueReference yields the      *)
(* ref-qualifier LValue and AddRValueReference the ref-qualifier RValue    *)
(* whatever the ref-qualifier was (there is no reference collapsing), and  *)
(* RemoveReference yields None; const, volatile, noexcept, the class and   *)
(* every other attribute are kept.                                         *)
C23_ReferenceQualifierSet ==
    (IsTraitsFunction(F) /\ Classified(traits) /\ traits.IsMemberFunction) =>
        LET L == MemberFunctionAddLValueReference_t(cfg, traits)
            R == MemberFunctionAddRValueReference_t(cfg, traits)
            N == MemberFunctionRemoveReference_t(cfg, traits)
        IN  /\ L.sig.refq = "LValue" /\ R.sig.refq = "RValue" /\ N.sig.refq = "None"
            /\ \A G \in {L, R, N} :
                   /\ G.kind = "pmf" /\ Wrapper(G) = Wrapper(traits.Type)
                   /\ \A a \in KeptByReferenceEdits : AttributeOf(G, a) = traits[a]

C23_Witness ==
    /\ op = "Write" /\ edits = 1 /\ F.kind = "pmf" /\ F.class = "K"
    /\ F.sig.args # <<>> /\ F.sig.const /\ F.sig.noex /\ F.sig.refq = "LValue"
    /\ Classified(traits) /\ traits.RefQualifier = "LValue"
    /\ MemberFunctionAddRValueReference_t(cfg, traits) = [F EXCEPT !.sig.refq = "RValue"]
    /\ MemberFunctionRemoveReference_t(cfg, traits) = [F EXCEPT !.sig.refq = "None"]

(* X can be applied to a function of the category of the classified type: *)
(* Thiscall is for non-static member functions only                        *)
Applicable(X) == ~(X = "Thiscall" /\ traits.IsFreeFunction)

(* C24: ReplaceCallingConvention<X> with X a convention the build replaces *)
(* with cdecl for the input's category ignores X and yields the input with *)
(* the calling convention Cdecl; with X a convention the build keeps, that *)
(* can be applied to the input's category, on an input without ellipsis,   *)
(* the classification of the result reports X and every other attribute    *)
(* as the input's.                                                         *)
C24_ReplaceCallingConvention ==
    (IsTraitsFunction(F) /\ Classified(traits)) =>
        \A X \in CallingConvention(cfg) :
            LET G == ReplaceCallingConvention_t(cfg, traits, X)
                g == FunctionTraits(cfg, G)
            IN  /\ (X \in NormalizedAway /\ Applicable(X)) =>
                       /\ G = [traits.Type EXCEPT !.sig.cc = "Cdecl"]
                       /\ Classified(g) /\ g.CallingConvention = "Cdecl"
                /\ (X \notin NormalizedAway /\ Applicable(X) /\ ~traits.IsVariadic) =>
                       /\ Classified(g) /\ g.CallingConvention = X
                       /\ \A a \in AttributeNames \ {"CallingConvention"} : g[a] = traits[a]
                       /\ Wrapper(G) = Wrapper(traits.Type)

C24_Witness ==
    /\ op = "Write" /\ F.kind = "pmf" /\ ~F.sig.variadic /\ F.sig.cc = "Thiscall"
    /\ "Stdcall" \in cfg.member /\ "Fastcall" \notin cfg.member
    /\ Classified(traits) /\ traits.CallingConvention = "Thiscall"
    /\ ReplaceCallingConvention_t(cfg, traits, "Stdcall").sig.cc = "Cdecl"
    /\ FunctionTraits(cfg, ReplaceCallingConvention_t(cfg, traits, "Fastcall")).CallingConvention = "Fastcall"

(* C25: for a variadic input, free or member, ReplaceCallingConvention<X>  *)
(* yields the input type for every X: the calling convention stays Cdecl,  *)
(* and the attempt is ignored, not rejected.                               *)
C25_VariadicKeepsCdecl ==
    (IsTraitsFunction(F) /\ Classified(traits) /\ traits.IsVariadic) =>
        \A X \in CallingConvention(cfg) :
            LET G == ReplaceCallingConvention_t(cfg, traits, X)
            IN  /\ G # Invalid
                /\ G = traits.Type /\ (IsFunctionShaped => G = F)
                /\ G.sig.cc = "Cdecl" /\ traits.CallingConvention = "Cdecl"

C25_Witness ==
    /\ op = "Write" /\ F.kind = "fn" /\ F.sig.variadic /\ F.sig.cc = "Cdecl"
    /\ "Vectorcall" \notin cfg.free /\ "Stdcall" \in cfg.free
    /\ Classified(traits) /\ traits.IsVariadic
    /\ ReplaceCallingConvention_t(cfg, traits, "Vectorcall") = F
    /\ ReplaceCallingConvention_t(cfg, traits, "Thiscall") = F

(* A function of the given category declared with the keyword of cc has   *)
(* the type of the one declared with cdecl                                 *)
SameAsCdecl(c, cc, isFreeFunc) ==
    IF isFreeFunc THEN FreeProbe(c, cc) = FreeProbe(c, "Cdecl")
    ELSE MemberProbe(c, cc) = MemberProbe(c, "Cdecl")

(* C27 as stated: CallingConventionReplacedWithCdecl<CC, IsFreeFunc>()     *)
(* returns a boolean for every enumerator CC and both values of            *)
(* IsFreeFunc: false for Cdecl, and otherwise true exactly when a function *)
(* of the category declared with the keyword of CC has the type of the one *)
(* declared with cdecl.                                                    *)
C27_Total ==
    (replaced # NotCalled) =>
        /\ replaced.returned \in {"true", "false"}
        /\ (replaced.returned = "true") <=>
               (/\ replaced.CallingConventionT # "Cdecl"
                /\ SameAsCdecl(cfg, replaced.CallingConventionT, replaced.IsFreeFuncT))

(* The partial specializations of FreeFunctionTraits and of                *)
(* MemberFunctionTraits that are enabled and match the type FunctionTraits *)
(* hands them for F                                                        *)
MatchingSpecializations ==
    LET S == RemoveRefAndPtrAndCv(F)
        M == IF IsFunctor(F) THEN OperatorType(S) ELSE S
    IN  {<<"free", s>> : s \in {x \in FreeSpecializations(cfg) :
                                    FreeSpecEnabled(cfg, x) /\ FreeSpecMatches(cfg, x, S)}}
        \cup {<<"member", s>> : s \in {x \in MemberSpecializations(cfg) :
                                        MemberSpecEnabled(cfg, x) /\ MemberSpecMatches(cfg, x, M)}}

(* C28: for every type F at most one of the three partial specializations  *)
(* of FunctionTraits is enabled, and for every accepted F, under every     *)
(* build configuration, exactly one partial specialization of              *)
(* FreeFunctionTraits or MemberFunctionTraits matches the normalized type: *)
(* the classification is neither ambiguous nor missing.                    *)
C28_ExactlyOneSpecialization ==
    /\ Cardinality(FunctionTraitsEnabled(F)) <= 1
    /\ traits # Ambiguous
    /\ IsTraitsFunction(F) =>
           /\ Cardinality(FunctionTraitsEnabled(F)) = 1
           /\ Cardinality(MatchingSpecializations) = 1
           /\ Classified(traits)

C28_Witness ==
    /\ op = "AddReference" /\ F.kind = "pmf" /\ F.ref = "rvalue" /\ F.cv.c
    /\ {"Stdcall", "Fastcall", "Thiscall"} \subseteq cfg.member /\ "Vectorcall" \notin cfg.member
    /\ F.sig.cc = "Cdecl" /\ ~F.sig.variadic
    /\ Cardinality(MatchingSpecializations) = 1
    /\ traits.sel = "member" /\ traits.CC = "Cdecl"

(* The types the write traits yield for the classified type, each with a  *)
(* valid index where it takes one                                          *)
WriteTraitResults ==
    {AddVariadicArgs_t(cfg, traits), RemoveVariadicArgs_t(cfg, traits),
     MemberFunctionAddConst_t(cfg, traits), MemberFunctionRemoveConst_t(cfg, traits),
     MemberFunctionAddVolatile_t(cfg, traits), MemberFunctionRemoveVolatile_t(cfg, traits),
     MemberFunctionAddCV_t(cfg, traits), MemberFunctionRemoveCV_t(cfg, traits),
     MemberFunctionAddLValueReference_t(cfg, traits), MemberFunctionAddRValueReference_t(cfg, traits),
     MemberFunctionRemoveReference_t(cfg, traits),
     AddNoexcept_t(cfg, traits), RemoveNoexcept_t(cfg, traits)}
    \cup {ReplaceCallingConvention_t(cfg, traits, X) : X \in CallingConvention(cfg)}
    \cup {MemberFunctionReplaceClass_t(cfg, traits, NewClassT) : NewClassT \in Classes}
    \cup {ReplaceReturnType_t(cfg, traits, NewReturnTypeT) : NewReturnTypeT \in RetTypes}
    \cup {ReplaceArgs_t(cfg, traits, NewArgsT) : NewArgsT \in ArgLists}
    \cup {ReplaceArgsTuple_t(cfg, traits, NewArgsT) : NewArgsT \in ArgLists}
    \cup {ReplaceNthArg_t(cfg, traits, N, NewArgT) : N \in 0..(traits.ArgCount - 1), NewArgT \in ArgTypes}

NoWrapper == [ptrs |-> <<>>, cv |-> NoCv, ref |-> "none"]

(* C29: what a chain of write traits has yielded is a type IsTraitsFunction *)
(* accepts, and so is what every write trait yields for it: for a function *)
(* or a pointer to member function under its wrappers a type of the same   *)
(* category, with the same reference and the same pointer layers and       *)
(* cv-qualifiers, whose classification has Class = void exactly when it is *)
(* a free function; for a function object the type of a pointer to member  *)
(* function without cv-qualifiers and reference.                           *)
C29_ClosedUnderChaining ==
    /\ (op = "Write") => (IsTraitsFunction(F) /\ Classified(traits) /\ IsFunctionShaped)
    /\ (IsTraitsFunction(F) /\ Classified(traits)) =>
           /\ (traits.Class = "void") <=> traits.IsFreeFunction
           /\ \A G \in WriteTraitResults :
                  LET g == FunctionTraits(cfg, G)
                  IN  /\ G # Invalid /\ IsTraitsFunction(G) /\ Classified(g)
                      /\ (g.Class = "void") <=> g.IsFreeFunction
                      /\ g.IsFreeFunction <=> traits.IsFreeFunction
                      /\ IsFunctionShaped => (G.kind = F.kind /\ Wrapper(G) = Wrapper(F))
                      /\ IsFunctor(F) => (G.kind = "pmf" /\ Wrapper(G) = NoWrapper)

C29_Witness ==
    /\ op = "Write" /\ edits = 1 /\ F.kind = "fn" /\ F.sig.ret = "void"
    /\ Len(F.ptrs) = 1 /\ F.ptrs[1].v /\ F.ref = "rvalue"
    /\ IsTraitsFunction(F) /\ Classified(traits) /\ traits.IsFreeFunction
    /\ \A G \in WriteTraitResults : IsTraitsFunction(G) /\ G.kind = "fn" /\ Wrapper(G) = Wrapper(F)
    /\ AddVariadicArgs_t(cfg, traits) # F

-----------------------------------------------------------------------------
(* Compile-time iteration: ForEach<N>, ForEachTupleType<TupleT> and        *)
(* ForEachArg<F>. The translation checks the functor and stamps out        *)
(* Process<0> .. Process<N>; the run then invokes the functor index by     *)
(* index.                                                                  *)

MaxN == 2

(* What "operator()" of a functor does at one index: the type of its       *)
(* result, whether the call converts to bool in the "if" that tests it,    *)
(* and the value it returns when run. "none" stands for an ill-formed call *)
(* or a result that does not convert to bool.                              *)
Behaviours ==
    {[type |-> t, valid |-> TRUE, value |-> v] : t \in {"bool", "int"}, v \in BOOLEAN}
    \cup {[type |-> "none", valid |-> FALSE, value |-> FALSE]}

(* ForEachFunctorT: a const or non-const lvalue, or an rvalue *)
Passed ==
    {[const |-> FALSE, lvalue |-> TRUE], [const |-> TRUE, lvalue |-> TRUE], [const |-> FALSE, lvalue |-> FALSE]}

(* The qualifiers "operator()" is declared with *)
Declared ==
    {[const |-> TRUE, refq |-> "None"], [const |-> FALSE, refq |-> "None"], [const |-> FALSE, refq |-> "RValue"]}

(* The functors: "at" is the behaviour at the indices 0 .. n-1 (index 0    *)
(* exists in any case, the check asks for it), "probe" the result type of  *)
(* "operator()<0, void>" that the tuple check asks for.                    *)
Functors(n) ==
    {[declared |-> d, at |-> a, probe |-> p] :
        d \in Declared, a \in [1..(IF n = 0 THEN 1 ELSE n) -> Behaviours], p \in {"bool", "int", "none"}}

(* "std::declval<T>().operator()": a const object needs a const operator,  *)
(* an lvalue no "&&" operator, an rvalue no non-const "&" operator         *)
Callable(p, d) ==
    /\ p.const => d.const
    /\ CASE d.refq = "None" -> TRUE
         [] d.refq = "LValue" -> p.lvalue \/ d.const
         [] d.refq = "RValue" -> ~p.lvalue

IsForEachFunctor(T) ==
    Callable(T.passed, T.functor.declared) /\ T.functor.at[1].type = "bool"

IsForEachTupleFunctor(T) ==
    Callable(T.passed, T.functor.declared) /\ T.functor.probe = "bool"

(* Private::ProcessTupleType in C++17, the lambda "processTupleType" in    *)
(* C++20: the functor ForEachTupleType hands to ForEach as a const lvalue. *)
(* The class declares "bool operator()", the lambda's result is deduced.   *)
ProcessTupleType(cpp, TupleT, T) ==
    LET Inner(i) == IF Callable(T.passed, T.functor.declared) THEN T.functor.at[i]
                    ELSE [type |-> "none", valid |-> FALSE, value |-> FALSE]
    IN  [passed |-> [const |-> TRUE, lvalue |-> TRUE], TupleT |-> TupleT,
         functor |-> [declared |-> [const |-> TRUE, refq |-> "None"],
                      at |-> [i \in DOMAIN T.functor.at |->
                                 IF cpp = 17 THEN [Inner(i) EXCEPT !.type = "bool"] ELSE Inner(i)],
                      probe |-> "none"]]

tuple_elementFromEnd(i, TupleT) == TupleT[Len(TupleT) - i]

(* std::tuple_element_t<I, TupleT> *)
tuple_element(i, TupleT) == TupleT[i + 1]

(* The type "operator()<I>" of T passes on next to I: TupleElement_t when  *)
(* T is the functor ForEachTupleType makes, none when T is the caller's    *)
TemplateArgs(T, i) ==
    IF "TupleT" \in DOMAIN T THEN <<tuple_element(i, T.TupleT)>> ELSE <<>>

InRangeButLast(i, n) == i + 1 < n

(* if constexpr (I < N) *)
InRange(i, n) == i < n

CanInvokeUnchecked(T, i) == TRUE

(* "if (std::forward<ForEachFunctorT>(m_Functor).template operator()<I>())" compiles *)
CanInvoke(T, i) ==
    Callable(T.passed, T.functor.declared) /\ T.functor.at[i + 1].valid

InvokeIgnoringResult(T, i) == TRUE

(* The value "operator()<I>" returns when it runs *)
Invoke(T, i) == T.functor.at[i + 1].value

(* A tuple of n types, and a parameter list of n types *)
Types(n) == [i \in 1..n |-> IF i % 2 = 1 THEN "int" ELSE "double"]

(* The calls: the check ForEach makes asks for the specialization it       *)
(* iterates first, ForEachTupleType iterates TupleT, ForEachArg iterates   *)
(* the parameters of a function.                                           *)
ForEachCalls ==
    LET Calls(n) == {[fn |-> f, cpp |-> v, N |-> n, passed |-> p, functor |-> g,
                      TupleT |-> IF f = "ForEachTupleType" THEN Types(n) ELSE <<>>] :
                        f \in {"ForEach", "ForEachTupleType", "ForEachArg"}, v \in {17, 20},
                        p \in Passed, g \in Functors(n)}
    IN  {k \in UNION {Calls(n) : n \in 0..MaxN} :
            /\ k.fn = "ForEach" => k.functor.probe = k.functor.at[1].type
            /\ k.fn = "ForEachArg" => k.N <= MaxArgs}

(* The function whose parameters ForEachArg iterates; a type that is no    *)
(* function stands for a misuse                                            *)
IteratedFunctions(c, k) ==
    IF k.fn = "ForEachArg"
    THEN {Request(cat, "int", "Cdecl", Types(k.N), variadic, FALSE, IF cat = "free" THEN "void" ELSE "K",
                  FALSE, FALSE, "None", 0, FALSE) :
              cat \in {"free", "member"}, variadic \in BOOLEAN}
         \cup (IF k.N = 0 THEN ScalarRequests ELSE {})
    ELSE ScalarRequests

(* One of the calls K is about to be translated *)
Iterate(K) ==
    /\ cfg \in BuildConfigs
    /\ call \in K
    /\ req \in IteratedFunctions(cfg, call)
    /\ F = Compile(cfg, req)
    /\ traits = FunctionTraits(cfg, F)
    /\ op = "Declare"
    /\ edits = 0
    /\ impl = NoImpl /\ I = 0 /\ stamped = {} /\ invoked = <<>> /\ returned = "none"
    /\ elements = <<>>
    /\ NotNaming /\ NotProbing

InitForEach == Iterate(ForEachCalls)

(* ForEach<N>(functor): the functor is checked, which stamps out its       *)
(* "operator()<0>", and ForEachImpl<N, ForEachFunctorT> is constructed     *)
ForEachCall(n, T, fn) ==
    IF IsForEachFunctor(T)
    THEN /\ op' = fn
         /\ impl' = [N |-> n, m_Functor |-> T]
         /\ I' = 0
         /\ stamped' = {0}
         /\ UNCHANGED <<invoked, returned, elements>>
    ELSE op' = "static_assert" /\ UNCHANGED <<impl, I, stamped, invoked, returned, elements>>

(* ForEachTupleType<TupleT>(functor) *)
ForEachTupleTypeCall(TupleT, T, cpp, fn) ==
    IF ~IsForEachTupleFunctor(T)
    THEN op' = "static_assert" /\ UNCHANGED <<impl, I, stamped, invoked, returned, elements>>
    ELSE IF Len(TupleT) # 0
         THEN ForEachCall(Len(TupleT), ProcessTupleType(cpp, TupleT, T), fn)
         ELSE op' = "return" /\ returned' = "true" /\ UNCHANGED <<impl, I, stamped, invoked, elements>>

ForEach ==
    /\ op = "Declare" /\ call.fn = "ForEach"
    /\ ForEachCall(call.N, [passed |-> call.passed, functor |-> call.functor], "ForEach")
    /\ UNCHANGED <<cfg, F, traits, req, edits, call, naming, replaced>>

ForEachTupleType ==
    /\ op = "Declare" /\ call.fn = "ForEachTupleType"
    /\ ForEachTupleTypeCall(call.TupleT, [passed |-> call.passed, functor |-> call.functor],
                            call.cpp, "ForEachTupleType")
    /\ UNCHANGED <<cfg, F, traits, req, edits, call, naming, replaced>>

(* ForEachArg<F>(functor) defers to ForEachFunctionTraitsArg<FunctionTraits<F>> *)
(* and that to ForEachTupleType<ArgTypes>                                  *)
ForEachArg ==
    /\ op = "Declare" /\ call.fn = "ForEachArg"
    /\ IF IsTraitsFunction(F) /\ Classified(traits)
       THEN ForEachTupleTypeCall(traits.ArgTypes, [passed |-> call.passed, functor |-> call.functor],
                                 call.cpp, "ForEachArg")
       ELSE op' = "static_assert" /\ UNCHANGED <<impl, I, stamped, invoked, returned, elements>>
    /\ UNCHANGED <<cfg, F, traits, req, edits, call, naming, replaced>>

(* The compiler stamps out Process<I>: for I < N the call of               *)
(* "operator()<I>" and the call of Process<I + 1>, for I = N "return true" *)
Instantiate ==
    /\ op \in {"ForEach", "ForEachTupleType", "ForEachArg", "Instantiate"}
    /\ IF InRange(I, impl.N)
       THEN IF CanInvoke(impl.m_Functor, I)
            THEN op' = "Instantiate" /\ stamped' = stamped \cup {I} /\ I' = I + 1
            ELSE op' = "static_assert" /\ UNCHANGED <<stamped, I>>
       ELSE op' = "Compiled" /\ I' = 0 /\ UNCHANGED stamped
    /\ UNCHANGED <<cfg, F, traits, req, edits, call, impl, invoked, returned, elements, naming, replaced>>

(* Process<I> runs *)
Process ==
    /\ op \in {"Compiled", "Process"}
    /\ IF InRange(I, impl.N)
       THEN /\ invoked' = Append(invoked, I)
            /\ elements' = elements \o TemplateArgs(impl.m_Functor, I)
            /\ IF Invoke(impl.m_Functor, I)
               THEN op' = "Process" /\ I' = I + 1 /\ UNCHANGED returned
               ELSE op' = "return" /\ returned' = "false" /\ UNCHANGED I
       ELSE op' = "return" /\ returned' = "true" /\ UNCHANGED <<I, invoked, elements>>
    /\ UNCHANGED <<cfg, F, traits, req, edits, call, impl, stamped, naming, replaced>>

NextForEach == ForEach \/ ForEachTupleType \/ ForEachArg \/ Instantiate \/ Process

SpecForEach == InitForEach /\ [][NextForEach]_vars

(* The runs of ForEach and ForEachTupleType with a functor passed as an    *)
(* lvalue. A started run goes on: Process<I> is straight-line code, and    *)
(* the functor is taken to return.                                         *)
InitRun ==
    Iterate({k \in ForEachCalls : /\ k.fn \in {"ForEach", "ForEachTupleType"}
                                  /\ k.passed = [const |-> FALSE, lvalue |-> TRUE]
                                  /\ k.functor.declared = [const |-> TRUE, refq |-> "None"]})

NextRun == ForEach \/ ForEachTupleType \/ Instantiate \/ Process

SpecForEachRun == InitRun /\ [][NextRun]_vars /\ WF_vars(Process)

-----------------------------------------------------------------------------
(* Properties of the iteration *)

(* What the functor that was passed does at index i *)
Predicate(i) == call.functor.at[i + 1]

(* The type of the result of invoking the functor as it was passed *)
ResultOf(i) ==
    IF Callable(call.passed, call.functor.declared) THEN Predicate(i).type ELSE "none"

AlwaysTrue == \A i \in 0..(call.N - 1) : Predicate(i).value

Indices(n) == [i \in 1..n |-> i - 1]

Running == op \in {"Compiled", "Process", "return"}

(* C15: with a predicate that returns true at every index, ForEach<N>,     *)
(* ForEachTupleType over N types and ForEachArg over N parameters invoke   *)
(* the predicate with the indices 0 .. N-1 in increasing order, each once, *)
(* and return true; for N = 0 there is no invocation and the result is     *)
(* true.                                                                   *)
C15_IterationCompleteness ==
    (call.fn # "none" /\ AlwaysTrue) =>
        /\ invoked = Indices(Len(invoked))
        /\ op = "return" => (invoked = Indices(call.N) /\ returned = "true")
        /\ returned # "false"

C15_Witness ==
    /\ op = "return" /\ call.fn = "ForEachArg" /\ call.N = 2 /\ AlwaysTrue
    /\ IsTraitsFunction(F) /\ traits.ArgCount = 2
    /\ invoked = <<0, 1>> /\ returned = "true"

(* C16 as stated: when the predicate first returns false at index k < N,   *)
(* the predicate was invoked with 0 .. k, the result is false, and no      *)
(* index after k is invoked or instantiated.                               *)
C16_ShortCircuit ==
    (call.fn # "none" /\ op = "return" /\ returned = "false") =>
        LET k == Len(invoked) - 1
        IN  /\ invoked = Indices(k + 1)
            /\ ~Predicate(k).value
            /\ \A j \in 0..(k - 1) : Predicate(j).value
            /\ \A j \in (k + 1)..(call.N - 1) : j \notin stamped

(* C17: a run ends, and it ends in one of two outcomes: it returns true    *)
(* exactly when the predicate returned true at every index 0 .. N-1, and   *)
(* false exactly when the predicate returned false at an index it was      *)
(* invoked with; no index is invoked twice.                                *)
C17_Outcome ==
    (call.fn # "none" /\ op = "return") =>
        /\ returned \in {"true", "false"}
        /\ (returned = "true") <=> AlwaysTrue
        /\ (returned = "true") => invoked \in {<<>>, Indices(call.N)}
        /\ (returned = "false") <=> (\E a \in DOMAIN invoked : ~Predicate(invoked[a]).value)
        /\ \A a, b \in DOMAIN invoked : a # b => invoked[a] # invoked[b]

C17_TwoOutcomes == [](C17_Outcome) /\ ((op = "Compiled") ~> (op = "return"))

C17_Witness ==
    /\ op = "return" /\ returned = "false" /\ call.fn = "ForEachTupleType" /\ call.N = 2
    /\ invoked = <<0, 1>> /\ Predicate(0).value /\ ~Predicate(1).value

(* The check the call makes of the functor it is given *)
FailsCheck ==
    LET T == [passed |-> call.passed, functor |-> call.functor]
    IN  IF call.fn = "ForEach" THEN ~IsForEachFunctor(T) ELSE ~IsForEachTupleFunctor(T)

(* C18 as stated: a predicate whose invocation at some index of the range  *)
(* is ill-formed or has a result that is not bool is rejected at compile   *)
(* time; it is invoked with no index.                                      *)
C18_NonBoolPredicateRejected ==
    (call.fn # "none" /\ \E i \in 0..(call.N - 1) : ResultOf(i) # "bool") =>
        (invoked = <<>> /\ ~Running)

(* C18: a predicate whose invocation at some index of the range is         *)
(* ill-formed, or has a result that does not convert to bool, in the value *)
(* category and with the cv-qualifiers it was passed with, and a predicate *)
(* that fails the check of the functor, is rejected at compile time: it is *)
(* invoked with no index and no step of the iteration runs.                *)
C18_IllFormedPredicateRejected ==
    (call.fn # "none" /\ (FailsCheck \/ \E i \in 0..(call.N - 1) : ResultOf(i) = "none")) =>
        (invoked = <<>> /\ ~Running /\ returned = "none")

C18_Witness ==
    /\ op = "static_assert" /\ call.fn = "ForEach" /\ call.N = 2
    /\ ~FailsCheck /\ ResultOf(0) = "bool" /\ ResultOf(1) = "none"
    /\ stamped = {0} /\ invoked = <<>> /\ returned = "none"

(* The tuple the call iterates: TupleT, or FunctionTraits<F>::ArgTypes *)
IteratedTuple ==
    IF call.fn = "ForEachTupleType" THEN call.TupleT
    ELSE IF call.fn = "ForEachArg" /\ Classified(traits) THEN traits.ArgTypes
    ELSE <<>>

(* C26: ForEachTupleType<TupleT> invokes the predicate at step I with the  *)
(* template arguments I and the I-th type of TupleT, for I = 0, 1, ... in  *)
(* the order of the tuple; for an empty tuple it returns true, invokes     *)
(* nothing and does not call ForEach. ForEachArg<F> iterates the           *)
(* non-variadic parameter types of F from left to right, never the         *)
(* ellipsis, and returns what ForEachTupleType returns for them.           *)
C26_TupleOrder ==
    (call.fn \in {"ForEachTupleType", "ForEachArg"}) =>
        /\ Len(elements) = Len(invoked) /\ Len(invoked) <= Len(IteratedTuple)
        /\ \A a \in DOMAIN invoked : invoked[a] = a - 1 /\ elements[a] = IteratedTuple[a]
        /\ (op = "return" /\ IteratedTuple = <<>>) =>
               returned = "true" /\ invoked = <<>> /\ impl = NoImpl /\ stamped = {}
        /\ (op = "return" /\ returned = "true") => elements = IteratedTuple
        /\ (op = "return") =>
               ((returned = "true") <=> \A i \in 0..(Len(IteratedTuple) - 1) : Predicate(i).value)

C26_Witness ==
    /\ op = "return" /\ call.fn = "ForEachArg" /\ returned = "true"
    /\ F.kind = "pmf" /\ F.sig.variadic /\ traits.IsVariadic
    /\ traits.ArgTypes = <<"int", "double">>
    /\ invoked = <<0, 1>> /\ elements = <<"int", "double">>

-----------------------------------------------------------------------------
(* Type names: TypeName_v<T> cuts the name of T out of the string the      *)
(* compiler makes for GetPrettyFunction<T>. Strings are sequences of       *)
(* characters; the qualified name of the function is shortened to "f".     *)

MaxNameLen == 2

Float == <<"f", "l", "o", "a", "t">>

(* The names of types: float, a shorter and a longer name, a name that     *)
(* looks like the end of a signature, and the names made of delimiters     *)
TypeNames ==
    {Float, <<"i", "n", "t">>, <<"u", "n", "s", "i", "g", "n", "e", "d", " ", "i", "n", "t">>, <<"=", " ", "f", "l", "o", "a", "t", "]">>}
    \cup SeqsUpTo({"]", ">", "=", ";"}, MaxNameLen)

(* What precedes and what follows the name of T in the string: the formats *)
(* of Clang, of GCC and Intel and of Microsoft, and formats a vendor may   *)
(* change them to (blanks dropped, "noexcept" dropped, a second type named *)
(* after T, another bracket)                                               *)
Prefixes ==
    {<<"f", "(", ")", " ", "[", "T", " ", "=", " ">>, <<"f", "(", ")", " ", "[", "w", "i", "t", "h", " ", "T", " ", "=", " ">>, <<"a", "u", "t", "o", " ", "f", "<">>, <<"f", "(", ")", " ", "[", "T", "=">>}

Suffixes ==
    {<<"]">>, <<";", " ", "v", " ", "=", " ", "s", "<", "c", "h", "a", "r", ">", "]">>, <<">", "(", "v", "o", "i", "d", ")", " ", "n", "o", "e", "x", "c", "e", "p", "t">>,
     <<">", "(", "v", "o", "i", "d", ")">>, <<";", " ", "U", " ", "=", " ", "f", "l", "o", "a", "t", "]">>, <<")">>}

Compilers ==
    {[id |-> i, prefix |-> p, suffix |-> q] :
        i \in {"Clang", "GCC", "Intel", "MSVC"}, p \in Prefixes, q \in Suffixes}

(* __PRETTY_FUNCTION__ or __FUNCSIG__ in GetPrettyFunction<T> *)
GetPrettyFunction(c, T) == c.prefix \o T \o c.suffix

(* std::basic_string_view: substr, ends_with, and the offsets rfind looks at *)
substr(str, pos, count) ==
    SubSeq(str, pos + 1, IF pos + count < Len(str) THEN pos + count ELSE Len(str))

ends_with(str, END_STR) ==
    Len(str) >= Len(END_STR) /\ SubSeq(str, Len(str) - Len(END_STR) + 1, Len(str)) = END_STR

Occurrences(str, sub) ==
    {pos \in 0..(Len(str) - Len(sub)) : substr(str, pos, Len(sub)) = sub}

Last(S) == CHOOSE x \in S : \A y \in S : y <= x

(* The static_asserts of GetTypeNameOffset on the string for float *)
OffsetAsserts(c) ==
    LET prettyFunctionFloat == GetPrettyFunction(c, Float)
    IN  CASE c.id = "MSVC" -> ends_with(prettyFunctionFloat, <<"<", "f", "l", "o", "a", "t", ">", "(", "v", "o", "i", "d", ")", " ", "n", "o", "e", "x", "c", "e", "p", "t">>)
          [] c.id = "GCC" -> \/ ends_with(prettyFunctionFloat, <<"=", " ", "f", "l", "o", "a", "t", "]">>)
                             \/ Occurrences(prettyFunctionFloat, <<"=", " ", "f", "l", "o", "a", "t", ";">>) # {}
          [] OTHER -> ends_with(prettyFunctionFloat, <<"=", " ", "f", "l", "o", "a", "t", "]">>)

(* GetTypeNameOffset<float>() where its static_asserts hold *)
GetTypeNameOffset(c) ==
    LET prettyFunctionFloat == GetPrettyFunction(c, Float)
    IN  CASE c.id = "MSVC" -> Len(prettyFunctionFloat) - 21
          [] c.id = "GCC" ->
                IF ends_with(prettyFunctionFloat, <<"=", " ", "f", "l", "o", "a", "t", "]">>)
                THEN Len(prettyFunctionFloat) - 6
                ELSE Last(Occurrences(prettyFunctionFloat, <<"=", " ", "f", "l", "o", "a", "t", ";">>)) + 2
          [] OTHER -> Len(prettyFunctionFloat) - 6

GetTypeNameLenOfFloat(c, T) == 5

GetTypeNameLen(c, T) ==
    LET prettyFunctionT == GetPrettyFunction(c, T)
        prettyFunctionFloat == GetPrettyFunction(c, Float)
    IN  IF Len(prettyFunctionT) > Len(prettyFunctionFloat)
        THEN 5 + (Len(prettyFunctionT) - Len(prettyFunctionFloat))
        ELSE 5 - (Len(prettyFunctionFloat) - Len(prettyFunctionT))

(* One subtraction for every T: T's size minus float's, whichever is       *)
(* the longer                                                              *)
SubtractionsOfOneBranch(c, T) ==
    <<[minuend |-> Len(GetPrettyFunction(c, T)), subtrahend |-> Len(GetPrettyFunction(c, Float))]>>

(* The subtractions of size_type that the branch GetTypeNameLen<T>() takes *)
(* evaluates, in the order it evaluates them; a subtraction of unsigned    *)
(* operands wraps around exactly when its subtrahend exceeds its minuend   *)
Subtractions(c, T) ==
    LET prettyFunctionT == GetPrettyFunction(c, T)
        prettyFunctionFloat == GetPrettyFunction(c, Float)
    IN  IF Len(prettyFunctionT) > Len(prettyFunctionFloat)
        THEN <<[minuend |-> Len(prettyFunctionT), subtrahend |-> Len(prettyFunctionFloat)]>>
        ELSE <<[minuend |-> Len(prettyFunctionFloat), subtrahend |-> Len(prettyFunctionT)],
               [minuend |-> 5, subtrahend |-> Len(prettyFunctionFloat) - Len(prettyFunctionT)]>>

(* TypeNameImpl::Get<T>(); no string where a static_assert of              *)
(* GetTypeNameOffset fires                                                 *)
Get(c, T) ==
    IF OffsetAsserts(c)
    THEN substr(GetPrettyFunction(c, T), GetTypeNameOffset(c), GetTypeNameLen(c, T))
    ELSE NoName

SanityCheckSkipped(c) == TRUE

(* static_assert(TypeNameImpl::Get<float>() == "float", ...) *)
SanityCheckHolds(c) == Get(c, Float) = Float

InitTypeName ==
    /\ cfg \in BuildConfigs
    /\ req \in ScalarRequests
    /\ F = Compile(cfg, req)
    /\ traits = FunctionTraits(cfg, F)
    /\ op = "Declare"
    /\ edits = 0
    /\ NotIterating /\ NotProbing
    /\ compiler \in Compilers
    /\ probe = <<>>
    /\ TypeName_v = NoName

(* The header is translated: the check of Get<float>() *)
SanityCheck ==
    /\ op = "Declare" /\ compiler # NoCompiler
    /\ op' = (IF SanityCheckHolds(compiler) THEN "SanityCheck" ELSE "static_assert")
    /\ UNCHANGED <<cfg, F, traits, req, edits, iteration, naming, replaced>>

(* TypeName_v<T> is instantiated *)
TypeName ==
    /\ op \in {"SanityCheck", "TypeName_v"}
    /\ \E T \in TypeNames :
        /\ probe' = T
        /\ TypeName_v' = Get(compiler, T)
        /\ op' = (IF Get(compiler, T) = NoName THEN "static_assert" ELSE "TypeName_v")
    /\ UNCHANGED <<cfg, F, traits, req, edits, iteration, compiler, replaced>>

NextTypeName == SanityCheck \/ TypeName

SpecTypeName == InitTypeName /\ [][NextTypeName]_vars

-----------------------------------------------------------------------------
(* Properties of the type names *)

(* The string for T is what precedes the name, the name, what follows it:  *)
(* so it is for every compiler of the model                                *)
UniformFormat ==
    \A T \in TypeNames : GetPrettyFunction(compiler, T) = compiler.prefix \o T \o compiler.suffix

(* What follows the name is what the calibration of the offset counts on   *)
ExpectedSuffix ==
    CASE compiler.id = "MSVC" -> compiler.suffix = <<">", "(", "v", "o", "i", "d", ")", " ", "n", "o", "e", "x", "c", "e", "p", "t">>
      [] compiler.id = "GCC" ->
            \/ compiler.suffix = <<"]">>
            \/ /\ Head(compiler.suffix) = ";"
               /\ ~ends_with(compiler.suffix, <<"=", " ", "f", "l", "o", "a", "t", "]">>)
               /\ Occurrences(compiler.suffix, <<"=", " ", "f", "l", "o", "a", "t", ";">>) = {}
      [] OTHER -> compiler.suffix = <<"]">>

FloatProbeFails ==
    \/ Get(compiler, Float) # Float
    \/ CASE compiler.id = "MSVC" -> ~ends_with(GetPrettyFunction(compiler, Float), <<"<", "f", "l", "o", "a", "t", ">", "(", "v", "o", "i", "d", ")", " ", "n", "o", "e", "x", "c", "e", "p", "t">>)
         [] compiler.id = "GCC" -> /\ ~ends_with(GetPrettyFunction(compiler, Float), <<"=", " ", "f", "l", "o", "a", "t", "]">>)
                                   /\ Occurrences(GetPrettyFunction(compiler, Float), <<"=", " ", "f", "l", "o", "a", "t", ";">>) = {}
         [] OTHER -> ~ends_with(GetPrettyFunction(compiler, Float), <<"=", " ", "f", "l", "o", "a", "t", "]">>)

(* C20: when the check of float fails, the translation halts at the check  *)
(* and no TypeName_v is ever produced under that format.                   *)
C20_DriftHalts ==
    (compiler # NoCompiler /\ FloatProbeFails) =>
        (op \in {"Declare", "static_assert"} /\ TypeName_v = NoName /\ probe = <<>>)

C20_Witness ==
    /\ op = "static_assert" /\ compiler.id = "MSVC"
    /\ compiler.prefix = <<"a", "u", "t", "o", " ", "f", "<">> /\ compiler.suffix = <<">", "(", "v", "o", "i", "d", ")">>
    /\ FloatProbeFails /\ TypeName_v = NoName

(* The string for T is at most 5 characters shorter than the one for float *)
AtMostFiveShorter(c, T) ==
    Len(GetPrettyFunction(c, Float)) - Len(GetPrettyFunction(c, T)) <= 5

(* C30: GetTypeNameLen<T>() is 5 plus the difference of the sizes where    *)
(* the string for T is the longer and 5 minus the reverse difference       *)
(* otherwise; where the string for T is at most 5 characters shorter than  *)
(* the one for float no subtraction it evaluates has a subtrahend above    *)
(* its minuend, so nothing wraps around, and the result is the length of   *)
(* the name of T.                                                          *)
C30_LengthWithoutWraparound ==
    op = "TypeName_v" =>
        LET sizeT == Len(GetPrettyFunction(compiler, probe))
            sizeFloat == Len(GetPrettyFunction(compiler, Float))
            subtractions == Subtractions(compiler, probe)
        IN  /\ sizeT > sizeFloat =>
                /\ Len(subtractions) = 1
                /\ subtractions[1] = [minuend |-> sizeT, subtrahend |-> sizeFloat]
                /\ GetTypeNameLen(compiler, probe) = 5 + (sizeT - sizeFloat)
            /\ sizeT <= sizeFloat =>
                /\ Len(subtractions) = 2
                /\ subtractions[1] = [minuend |-> sizeFloat, subtrahend |-> sizeT]
                /\ subtractions[2] = [minuend |-> 5, subtrahend |-> sizeFloat - sizeT]
                /\ GetTypeNameLen(compiler, probe) = 5 - (sizeFloat - sizeT)
            /\ AtMostFiveShorter(compiler, probe) =>
                /\ \A i \in 1..Len(subtractions) : subtractions[i].subtrahend <= subtractions[i].minuend
                /\ GetTypeNameLen(compiler, probe) = Len(probe)
                /\ GetTypeNameLen(compiler, probe) >= 0

C30_Witness ==
    /\ op = "TypeName_v" /\ probe = <<"i", "n", "t">>
    /\ Len(GetPrettyFunction(compiler, probe)) < Len(GetPrettyFunction(compiler, Float))
    /\ AtMostFiveShorter(compiler, probe)
    /\ Len(Subtractions(compiler, probe)) = 2
    /\ GetTypeNameLen(compiler, probe) = 3
    /\ TypeName_v = probe

====
